---- MODULE Spec2Model ----
(***************************************************************************)
(* config-kit: a layered, observable configuration store.                  *)
(*                                                                         *)
(* The model follows the source object by object:                          *)
(*   Node       (src/node.js)            a heap of proxied containers      *)
(*   JSONStore  (src/stores/json-store.js)                                 *)
(*   validate   (unnamed/part_007, util)                                   *)
(*   Layer      (src/fsutil.js, class Layer)                               *)
(*   LayerList  (unnamed/part_008, layer-list)                             *)
(*   Config     (src/config.js)                                            *)
(*                                                                         *)
(* hashValue() is modelled as an injective hash: the hash of a value is    *)
(* the JSON text that the source feeds to its 32-bit string hash.  What    *)
(* the source puts into that text (child hashes only, in the order of the  *)
(* hash table, no key names) is kept exactly.                              *)
(***************************************************************************)
EXTENDS Integers, Sequences, FiniteSets, TLC

RECURSIVE Run(_, _)

(***************************************************************************)
(* Plain JavaScript values.  A value is a scalar (s holds its JSON text),  *)
(* an array or an object (kv holds the own properties in own-key order).   *)
(***************************************************************************)
S(s) == [kind |-> "s", s |-> s, kv |-> <<>>]
O(kv) == [kind |-> "o", s |-> "", kv |-> kv]
A(kv) == [kind |-> "a", s |-> "", kv |-> kv]
KV(k, v) == [k |-> k, v |-> v]
Undefined == S("undefined")
IsObjectLike(pv) == pv.kind # "s"

\* hashes that are not numbers in the source
NullHash == "~null"
UndefHash == "~undefined"

\* hashValue(scalar): JSON.stringify(undefined) is undefined, hashed as ''
HashScalar(s) == IF s = "undefined" THEN "" ELSE s

RECURSIVE JoinHashes(_)
JoinHashes(hs) ==
  IF Len(hs) = 0 THEN ""
  ELSE IF Len(hs) = 1 THEN hs[1].h
  ELSE hs[1].h \o "," \o JoinHashes(Tail(hs))

\* hashValue(isArray ? hashes : Object.values(hashes))
HashList(hs) == "[" \o JoinHashes(hs) \o "]"

(***************************************************************************)
(* The node heap.  A cell is one own property of a node's target:          *)
(*   t = "s"  a scalar (s)                                                 *)
(*   t = "n"  the proxy of node n                                          *)
(*   t = "r"  the bare target object of node n (it carries Node.Meta, but  *)
(*            reads and writes through it bypass the proxy traps)          *)
(*   t = "p"  a plain object or array without Node.Meta (pv)               *)
(***************************************************************************)
NoPV == S("")
CS(k, s) == [k |-> k, t |-> "s", s |-> s, n |-> 0, pv |-> NoPV]
CN(k, n) == [k |-> k, t |-> "n", s |-> "", n |-> n, pv |-> NoPV]
CR(k, n) == [k |-> k, t |-> "r", s |-> "", n |-> n, pv |-> NoPV]
CP(k, pv) == [k |-> k, t |-> "p", s |-> "", n |-> 0, pv |-> pv]
NoCell == [k |-> "", t |-> "u", s |-> "undefined", n |-> 0, pv |-> NoPV]

CellFromPV(k, pv) == IF pv.kind = "s" THEN CS(k, pv.s) ELSE CP(k, pv)

\* the sequence that the function f on 1..n is
AsTuple(f) == SubSeq(f, 1, Len(f))

\* position of key k in a sequence of records with a k field, 0 if absent
RECURSIVE IndexFrom(_, _, _)
IndexFrom(seq, k, i) ==
  IF i > Len(seq) THEN 0
  ELSE IF seq[i].k = k THEN i
  ELSE IndexFrom(seq, k, i + 1)
IndexOf(seq, k) == IndexFrom(seq, k, 1)
HasKey(seq, k) == IndexOf(seq, k) # 0
RemoveAt(seq, i) == SubSeq(seq, 1, i - 1) \o SubSeq(seq, i + 1, Len(seq))
RemoveKey(seq, k) == IF HasKey(seq, k) THEN RemoveAt(seq, IndexOf(seq, k)) ELSE seq
\* obj[k] = e on a JS object or array: in place if k exists, appended otherwise
PutKey(seq, e) ==
  IF HasKey(seq, e.k) THEN [seq EXCEPT ![IndexOf(seq, e.k)] = e] ELSE Append(seq, e)
GetCell(props, k) == IF HasKey(props, k) THEN props[IndexOf(props, k)] ELSE NoCell
GetHash(hashes, k) == IF HasKey(hashes, k) THEN hashes[IndexOf(hashes, k)].h ELSE UndefHash
KeysOf(seq) == AsTuple([i \in 1..Len(seq) |-> seq[i].k])
SeqHas(seq, x) == \E i \in 1..Len(seq) : seq[i] = x
SeqAdd(seq, x) == IF SeqHas(seq, x) THEN seq ELSE Append(seq, x)
RECURSIVE SeqDel(_, _)
SeqDel(seq, x) ==
  IF Len(seq) = 0 THEN seq
  ELSE IF Head(seq) = x THEN SeqDel(Tail(seq), x)
  ELSE <<Head(seq)>> \o SeqDel(Tail(seq), x)

\* the `internal` record of a Node plus its target
NodeRec(isArr, props, parents) ==
  [arr |-> isArr, props |-> props, hashes |-> <<>>, hash |-> NullHash,
   parents |-> parents, listeners |-> <<>>, hasPrev |-> FALSE, prev |-> <<>>,
   paused |-> 0, pending |-> 0]

\* a value handed to the proxy set trap: a plain value or an existing node
PlainVal(pv) == [isNode |-> FALSE, n |-> 0, pv |-> pv]
NodeVal(n) == [isNode |-> TRUE, n |-> n, pv |-> NoPV]

\* filterObject(node, filter)
RECURSIVE FilterWalk(_, _, _, _, _)
FilterWalk(h, cur, filter, i, hash) ==
  IF i > Len(filter) THEN [found |-> TRUE, hash |-> hash]
  ELSE IF ~HasKey(h[cur].props, filter[i]) THEN [found |-> FALSE, hash |-> hash]
  ELSE LET cell == GetCell(h[cur].props, filter[i])
           hk == GetHash(h[cur].hashes, filter[i])
       IN IF cell.t \in {"n", "r"} THEN FilterWalk(h, cell.n, filter, i + 1, hk)
          ELSE [found |-> TRUE, hash |-> hk]
filterObject(h, id, filter) == FilterWalk(h, id, filter, 1, NullHash)

PrevGet(prev, l) ==
  IF \E i \in 1..Len(prev) : prev[i].l = l
  THEN prev[CHOOSE i \in 1..Len(prev) : prev[i].l = l].h
  ELSE UndefHash
PrevSet(prev, l, hv) ==
  IF \E i \in 1..Len(prev) : prev[i].l = l
  THEN [prev EXCEPT ![CHOOSE i \in 1..Len(prev) : prev[i].l = l] = [l |-> l, h |-> hv]]
  ELSE Append(prev, [l |-> l, h |-> hv])

\* isArray ? hashes : Object.values(hashes): JSON.stringify of an array
\* leaves out the properties that are not indices
ArrayHashes(isArr, hashes) ==
  IF isArr THEN SelectSeq(hashes, LAMBDA e : e.k \in {"0", "1", "2", "3", "4", "5", "6", "7"})
  ELSE hashes

(***************************************************************************)
(* internal.notify, internal.rehash, the Node constructor and the proxy    *)
(* traps.  M = [h |-> heap, ev |-> listeners invoked so far].              *)
(***************************************************************************)

NotifyListeners(M, id, ls) ==
  IF Len(ls) = 0 THEN M
  ELSE LET e == Head(ls)
           nd == M.h[id]
       IN IF Len(e.f) > 0
          THEN LET r == filterObject(M.h, id, e.f)
                   changed == (r.found /\ ~nd.hasPrev)
                              \/ (nd.hasPrev /\ r.hash # PrevGet(nd.prev, e.l))
                   M1 == [M EXCEPT !.h[id].hasPrev = TRUE,
                                   !.h[id].prev = PrevSet(nd.prev, e.l, r.hash),
                                   !.ev = IF changed THEN Append(M.ev, e.l) ELSE M.ev]
               IN Run("NotifyListeners", <<M1, id, Tail(ls)>>)
          ELSE Run("NotifyListeners", <<[M EXCEPT !.ev = Append(M.ev, e.l)], id, Tail(ls)>>)

NotifyParents(M, ps) ==
  IF Len(ps) = 0 THEN M ELSE Run("NotifyParents", <<Run("notify", <<M, Head(ps)>>), Tail(ps)>>)

\* notify() that does not look at the pause counter
notifyAlways(M, id) ==
  Run("NotifyParents", <<Run("NotifyListeners", <<M, id, M.h[id].listeners>>), M.h[id].parents>>)

notify(M, id) ==
  IF M.h[id].paused > 0
  THEN [M EXCEPT !.h[id].pending = @ + 1]
  ELSE Run("NotifyParents", <<Run("NotifyListeners", <<M, id, M.h[id].listeners>>), M.h[id].parents>>)

RehashParents(M, ps) ==
  IF Len(ps) = 0 THEN M ELSE Run("RehashParents", <<Run("rehash", <<M, Head(ps), FALSE>>), Tail(ps)>>)

\* the body of the for loop of rehash, for the keys that are left
RehashKeys(M, id, keys) ==
  IF Len(keys) = 0 THEN M
  ELSE LET k == Head(keys)
           cell == GetCell(M.h[id].props, k)
           c == Len(M.h) + 1
           \* a plain child becomes the target of a new Node, then is
           \* assigned through the proxy: node[key] = new Node(node[key], node)
           M1 == IF cell.t = "p"
                 THEN Run("ProxySet", <<Run("NewNode", <<[M EXCEPT !.h[id].props =
                                             PutKey(@, CR(k, c))], cell.pv, id>>),
                               id, k, NodeVal(c)>>)
                 ELSE M
           cell1 == GetCell(M1.h[id].props, k)
           hk == IF cell1.t \in {"n", "r"} THEN M1.h[cell1.n].hash
                 ELSE HashScalar(cell1.s)
           M2 == [M1 EXCEPT !.h[id].hashes = PutKey(@, [k |-> k, h |-> hk])]
       IN Run("RehashKeys", <<M2, id, Tail(keys)>>)

rehash(M, id, isCtor) ==
  LET old == M.h[id].hash
      M1 == Run("RehashKeys", <<[M EXCEPT !.h[id].hashes = <<>>], id, KeysOf(M.h[id].props)>>)
      M2 == [M1 EXCEPT !.h[id].hash = HashList(ArrayHashes(M1.h[id].arr, M1.h[id].hashes))]
  IN IF ~isCtor /\ old # M2.h[id].hash
     THEN Run("RehashParents", <<M2, M2.h[id].parents>>)
     ELSE M2

\* new Node(value, parent); the new node is Len(M.h) + 1
NewNode(M, pv, parent) ==
  LET id == Len(M.h) + 1
      props == AsTuple([i \in 1..Len(pv.kv) |-> CellFromPV(pv.kv[i].k, pv.kv[i].v)])
      nd == NodeRec(pv.kind = "a", props, IF parent = 0 THEN <<>> ELSE <<parent>>)
  IN Run("rehash", <<[M EXCEPT !.h = Append(M.h, nd)], id, TRUE>>)

\* the proxy set trap: node[prop] = val
ProxySet(M, id, prop, val) ==
  LET desc == HasKey(M.h[id].props, prop)
      isObj == val.isNode \/ IsObjectLike(val.pv)
      c == IF val.isNode THEN val.n ELSE Len(M.h) + 1
      M1 == IF ~isObj THEN M
            ELSE IF val.isNode THEN [M EXCEPT !.h[c].parents = SeqAdd(@, id)]
            ELSE Run("NewNode", <<M, val.pv, id>>)
      hash == IF isObj THEN M1.h[c].hash ELSE HashScalar(val.pv.s)
      cell == IF isObj THEN CN(prop, c) ELSE CS(prop, val.pv.s)
      nd == M1.h[id]
      \* delete target[prop]; target[prop] = value moves an object's key to
      \* the end of the own keys, an array index stays where it is
      props == IF nd.arr THEN PutKey(nd.props, cell)
               ELSE Append(RemoveKey(nd.props, prop), cell)
      hashes == PutKey(nd.hashes, [k |-> prop, h |-> hash])
      \* if (desc) internal.parents.delete(node): the node stops being its
      \* own parent when the property existed
      parents == IF desc THEN SeqDel(nd.parents, id) ELSE nd.parents
      M2 == [M1 EXCEPT !.h[id].props = props,
                       !.h[id].hashes = hashes,
                       !.h[id].hash = HashList(ArrayHashes(nd.arr, hashes)),
                       !.h[id].parents = parents]
  IN IF desc /\ GetHash(nd.hashes, prop) = hash THEN M1
     \* a node that is its own parent: rehash() changes the hash and so calls
     \* rehash() of the parents, itself included, until the call stack is
     \* full; the trap is left by that RangeError before notify, with the
     \* value written (the hashes of the later rounds are not followed)
     ELSE IF SeqHas(parents, id) THEN M2
     ELSE Run("notify", <<Run("RehashParents", <<M2, parents>>), id>>)

\* the raw object a Node was made of, as a value to assign
TargetVal(n) == [isNode |-> FALSE, n |-> n, pv |-> NoPV]

\* the set trap with what it throws: R = [M, threw].  target === value holds
\* when the value is the raw object behind the proxy, not the proxy itself
SetTrap(M, id, prop, val) ==
  IF ~val.isNode /\ val.n = id THEN [M |-> M, threw |-> "Error"]
  ELSE LET M1 == Run("ProxySet", <<M, id, prop, val>>)
       IN [M |-> M1, threw |-> IF SeqHas(M1.h[id].parents, id) THEN "RangeError" ELSE "none"]

\* the proxy deleteProperty trap: delete node[prop]
ProxyDelete(M, id, prop) ==
  LET nd == M.h[id]
      cell == GetCell(nd.props, prop)
      M1 == IF cell.t \in {"n", "r"}
            THEN [M EXCEPT !.h[cell.n].parents = SeqDel(@, id)]
            ELSE M
      hashes == RemoveKey(nd.hashes, prop)
      M2 == [M1 EXCEPT !.h[id].props = RemoveKey(nd.props, prop),
                       !.h[id].hashes = hashes,
                       !.h[id].hash = HashList(hashes)]
  IN IF HasKey(nd.props, prop) THEN Run("notify", <<M2, id>>) ELSE M

pause(M, id) == [M EXCEPT !.h[id].paused = @ + 1]

resume(M, id) ==
  LET p == IF M.h[id].paused > 0 THEN M.h[id].paused - 1 ELSE 0
      M1 == [M EXCEPT !.h[id].paused = p]
  IN IF p = 0 /\ M.h[id].pending > 0
     THEN Run("notify", <<[M1 EXCEPT !.h[id].pending = 0], id>>)
     ELSE M1

\* internal.watch(filter, listener); an empty filter stands for null
NodeWatch(M, id, filter, l) ==
  LET nd == M.h[id]
      ls == IF \E i \in 1..Len(nd.listeners) : nd.listeners[i].l = l
            THEN [nd.listeners EXCEPT
                    ![CHOOSE i \in 1..Len(nd.listeners) : nd.listeners[i].l = l].f = filter]
            ELSE Append(nd.listeners, [l |-> l, f |-> filter])
      r == filterObject(M.h, id, filter)
      set == Len(filter) > 0 /\ r.found
  IN [M EXCEPT !.h[id].listeners = ls,
               !.h[id].hasPrev = nd.hasPrev \/ set,
               !.h[id].prev = IF set THEN PrevSet(nd.prev, l, r.hash) ELSE nd.prev]

RECURSIVE DropListener(_, _)
DropListener(ls, l) ==
  IF Len(ls) = 0 THEN ls
  ELSE IF Head(ls).l = l THEN DropListener(Tail(ls), l)
  ELSE <<Head(ls)>> \o DropListener(Tail(ls), l)

\* internal.unwatch(listener)
NodeUnwatch(M, id, l) ==
  LET nd == M.h[id]
      ls == DropListener(nd.listeners, l)
      pv == DropListener(nd.prev, l)
  IN IF Len(nd.listeners) = 0 THEN M
     ELSE IF Len(ls) = 0
     THEN [M EXCEPT !.h[id].listeners = <<>>, !.h[id].hasPrev = FALSE, !.h[id].prev = <<>>]
     ELSE [M EXCEPT !.h[id].listeners = ls, !.h[id].prev = pv]

(***************************************************************************)
(* Plain values by path (objects that never went through a proxy).         *)
(***************************************************************************)
PVHas(pv, k) == HasKey(pv.kv, k)
PVGet(pv, k) == IF HasKey(pv.kv, k) THEN pv.kv[IndexOf(pv.kv, k)].v ELSE Undefined
PVPut(pv, k, v) == [pv EXCEPT !.kv = PutKey(@, KV(k, v))]
PVDel(pv, k) == [pv EXCEPT !.kv = RemoveKey(@, k)]

RECURSIVE PVAt(_, _)
PVAt(pv, path) == IF Len(path) = 0 THEN pv ELSE PVAt(PVGet(pv, Head(path)), Tail(path))

\* the value pv with the value at path replaced by w
RECURSIVE PVReplace(_, _, _)
PVReplace(pv, path, w) ==
  IF Len(path) = 0 THEN w
  ELSE PVPut(pv, Head(path), PVReplace(PVGet(pv, Head(path)), Tail(path), w))

IndexKeys == {"0", "1", "2", "3", "4", "5", "6", "7"}
IsIndexCell(e) == e.k \in IndexKeys
IndexPart(seq) == SelectSeq(seq, IsIndexCell)
NamedPart(seq) == SelectSeq(seq, LAMBDA e : ~IsIndexCell(e))

(***************************************************************************)
(* A handle is what a JavaScript variable holding a container refers to:   *)
(* the proxy of node id ("n"), the bare target of node id ("r"), or the    *)
(* plain object found at path inside the plain cell key of node id ("p").  *)
(***************************************************************************)
NoHandle == [m |-> "x", id |-> 0, key |-> "", path |-> <<>>]
ProxyOf(id) == [m |-> "n", id |-> id, key |-> "", path |-> <<>>]
TargetOf(id) == [m |-> "r", id |-> id, key |-> "", path |-> <<>>]
PlainAt(id, key, path) == [m |-> "p", id |-> id, key |-> key, path |-> path]

\* what reading a property yields: t = "s" scalar, "o" container, "u" undefined
RefScalar(s) == [t |-> "s", s |-> s, hd |-> NoHandle, arr |-> FALSE, meta |-> FALSE]
RefObj(hd, arr, meta) == [t |-> "o", s |-> "", hd |-> hd, arr |-> arr, meta |-> meta]
RefUndef == [t |-> "u", s |-> "undefined", hd |-> NoHandle, arr |-> FALSE, meta |-> FALSE]

HandlePV(h, hd) == PVAt(GetCell(h[hd.id].props, hd.key).pv, hd.path)

\* obj[k]
Read(h, hd, k) ==
  IF hd.m = "p"
  THEN LET pv == HandlePV(h, hd)
           v == PVGet(pv, k)
       IN IF ~PVHas(pv, k) THEN RefUndef
          ELSE IF v.kind = "s" THEN RefScalar(v.s)
          ELSE RefObj(PlainAt(hd.id, hd.key, Append(hd.path, k)), v.kind = "a", FALSE)
  ELSE LET cell == GetCell(h[hd.id].props, k)
       IN IF cell.t = "u" THEN RefUndef
          ELSE IF cell.t = "s" THEN RefScalar(cell.s)
          ELSE IF cell.t = "n" THEN RefObj(ProxyOf(cell.n), h[cell.n].arr, TRUE)
          ELSE IF cell.t = "r" THEN RefObj(TargetOf(cell.n), h[cell.n].arr, TRUE)
          ELSE RefObj(PlainAt(hd.id, k, <<>>), cell.pv.kind = "a", FALSE)

\* Object.prototype.hasOwnProperty.call(obj, k)
HasOwn(h, hd, k) ==
  IF hd.m = "p" THEN PVHas(HandlePV(h, hd), k) ELSE HasKey(h[hd.id].props, k)

\* Object.keys(obj).length
KeyCount(h, hd) ==
  IF hd.m = "p" THEN Len(HandlePV(h, hd).kv) ELSE Len(h[hd.id].props)

\* obj[k] = pv
Write(M, hd, k, pv) ==
  IF hd.m = "n" THEN Run("ProxySet", <<M, hd.id, k, PlainVal(pv)>>)
  ELSE IF hd.m = "r" THEN [M EXCEPT !.h[hd.id].props = PutKey(@, CellFromPV(k, pv))]
  ELSE LET cell == GetCell(M.h[hd.id].props, hd.key)
           obj == PVPut(PVAt(cell.pv, hd.path), k, pv)
       IN [M EXCEPT !.h[hd.id].props = PutKey(@, CP(hd.key, PVReplace(cell.pv, hd.path, obj)))]

\* delete obj[k]
Remove(M, hd, k) ==
  IF hd.m = "n" THEN Run("ProxyDelete", <<M, hd.id, k>>)
  ELSE IF hd.m = "r" THEN [M EXCEPT !.h[hd.id].props = RemoveKey(@, k)]
  ELSE LET cell == GetCell(M.h[hd.id].props, hd.key)
           obj == PVDel(PVAt(cell.pv, hd.path), k)
       IN [M EXCEPT !.h[hd.id].props = PutKey(@, CP(hd.key, PVReplace(cell.pv, hd.path, obj)))]

\* a copy of the value a handle refers to (JSON view: an array shows its
\* elements only)
CellsToKV(h, cells) ==
  IF Len(cells) = 0 THEN <<>>
  ELSE LET c == Head(cells)
           v == IF c.t = "s" THEN S(c.s)
                ELSE IF c.t = "p" THEN c.pv
                ELSE Run("ToPV", <<h, c.n>>)
       IN <<KV(c.k, v)>> \o Run("CellsToKV", <<h, Tail(cells)>>)
ToPV(h, id) ==
  IF h[id].arr THEN A(Run("CellsToKV", <<h, IndexPart(h[id].props)>>))
  ELSE O(Run("CellsToKV", <<h, h[id].props>>))

RefToPV(h, r) ==
  IF r.t = "u" THEN Undefined
  ELSE IF r.t = "s" THEN S(r.s)
  ELSE IF r.hd.m = "p" THEN HandlePV(h, r.hd)
  ELSE Run("ToPV", <<h, r.hd.id>>)

(***************************************************************************)
(* The splice wrapper of the proxy get trap, as Node.merge calls it:       *)
(* arr.splice(0, arr.length, ...items)                                     *)
(***************************************************************************)
DetachAll(M, cells, id) ==
  IF Len(cells) = 0 THEN M
  ELSE LET c == Head(cells)
           M1 == IF c.t \in {"n", "r"}
                 THEN [M EXCEPT !.h[c.n].parents = SeqDel(@, id)]
                 ELSE M
       IN Run("DetachAll", <<M1, Tail(cells), id>>)

ItemCells(items) == AsTuple([i \in 1..Len(items) |-> CellFromPV(ToString(i - 1), items[i].v)])

SpliceAll(M, id, items) ==
  LET hash == M.h[id].hash
      removed == IndexPart(M.h[id].props)
      M1 == pause(M, id)
      M2 == [M1 EXCEPT !.h[id].props = ItemCells(items) \o NamedPart(@)]
      M3 == Run("resume", <<Run("rehash", <<Run("DetachAll", <<M2, removed, id>>), id, FALSE>>), id>>)
  IN IF M3.h[id].hash # hash THEN Run("notify", <<M3, id>>) ELSE M3

\* the elements of an array take the indices 0, 1, ... in their order
Reindex(cells) == AsTuple([i \in 1..Len(cells) |-> [cells[i] EXCEPT !.k = ToString(i - 1)]])

\* node.splice(start, deleteCount, ...items) for start >= 0; hasCount is
\* FALSE when deleteCount is undefined
SpliceNode(M, id, start, hasCount, count, items) ==
  LET hash == M.h[id].hash
      cells == IndexPart(M.h[id].props)
      len == Len(cells)
      s == IF start > len THEN len ELSE start
      dc0 == IF hasCount THEN count ELSE len - start
      dc == IF dc0 < 0 THEN 0 ELSE IF dc0 > len - s THEN len - s ELSE dc0
      removed == SubSeq(cells, s + 1, s + dc)
      kept == SubSeq(cells, 1, s) \o ItemCells(items) \o SubSeq(cells, s + dc + 1, len)
      M1 == pause(M, id)
      M2 == [M1 EXCEPT !.h[id].props = Reindex(kept) \o NamedPart(@)]
      M3 == Run("resume", <<Run("rehash", <<Run("DetachAll", <<M2, removed, id>>), id, FALSE>>), id>>)
  IN IF M3.h[id].hash # hash THEN Run("notify", <<M3, id>>) ELSE M3
\* the same call on an array that is not behind a proxy
SpliceAllPlain(M, hd, items) ==
  IF hd.m = "r"
  THEN [M EXCEPT !.h[hd.id].props = ItemCells(items) \o NamedPart(@)]
  ELSE LET cell == GetCell(M.h[hd.id].props, hd.key)
           old == PVAt(cell.pv, hd.path)
           new == [old EXCEPT !.kv =
                     AsTuple([i \in 1..Len(items) |-> KV(ToString(i - 1), items[i].v)])
                     \o NamedPart(old.kv)]
       IN [M EXCEPT !.h[hd.id].props = PutKey(@, CP(hd.key, PVReplace(cell.pv, hd.path, new)))]

(***************************************************************************)
(* The push, unshift, pop and shift wrappers of the proxy get trap          *)
(***************************************************************************)

\* Array.prototype[prop].apply(target, args): the elements of the target
ApplyToTarget(cells, prop, items) ==
  IF prop = "push" THEN cells \o ItemCells(items)
  ELSE IF prop = "unshift" THEN ItemCells(items) \o cells
  ELSE IF Len(cells) = 0 THEN cells
  ELSE IF prop = "pop" THEN SubSeq(cells, 1, Len(cells) - 1)
  ELSE Tail(cells)

ArrayMethod(M, id, prop, items) ==
  LET additive == prop \in {"push", "unshift"}
      M1 == pause(M, id)
      M2 == [M1 EXCEPT !.h[id].props =
               Reindex(ApplyToTarget(IndexPart(@), prop, items)) \o NamedPart(@)]
      M3 == Run("resume", <<Run("rehash", <<M2, id, FALSE>>), id>>)
  IN IF ~additive \/ Len(items) > 0 THEN Run("notify", <<M3, id>>) ELSE M3

(***************************************************************************)
(* Node.merge(node, value)                                                 *)
(***************************************************************************)
mix(M, kvs, dest) ==
  IF Len(kvs) = 0 THEN M
  ELSE LET k == Head(kvs).k
           v == Head(kvs).v
           r == Read(M.h, dest, k)
       IN IF v.kind = "o"
          THEN LET M1 == IF r.t = "o" /\ r.meta THEN M ELSE Run("Write", <<M, dest, k, O(<<>>)>>)
                   r1 == Read(M1.h, dest, k)
               IN Run("mix", <<Run("mix", <<M1, v.kv, r1.hd>>), Tail(kvs), dest>>)
          ELSE IF v.kind = "a" /\ r.t = "o" /\ r.arr
          THEN Run("mix", <<IF r.hd.m = "n" THEN Run("SpliceAll", <<M, r.hd.id, v.kv>>)
                   ELSE Run("SpliceAllPlain", <<M, r.hd, v.kv>>),
                   Tail(kvs), dest>>)
          ELSE Run("mix", <<Run("Write", <<M, dest, k, v>>), Tail(kvs), dest>>)

\* a merge that does not pause the node
NodeMergeUnpaused(M, id, pv) == Run("mix", <<M, pv.kv, ProxyOf(id)>>)
NodeMerge(M, id, pv) == Run("resume", <<Run("mix", <<pause(M, id), pv.kv, ProxyOf(id)>>), id>>)

(***************************************************************************)
(* JSONStore                                                               *)
(***************************************************************************)
\* the scalars of the model that are JavaScript strings
StringScalars == {"'x'", "'y'"}

\* JSONStore.set(key, value): the loop over the key segments
StoreSetWalk(M, obj, key, i, pv) ==
  IF i > Len(key) THEN M
  ELSE IF i < Len(key)
  THEN LET r == Read(M.h, obj, key[i])
           M1 == IF r.t # "o" \/ r.arr THEN Run("Write", <<M, obj, key[i], O(<<>>)>>) ELSE M
       IN Run("StoreSetWalk", <<M1, Read(M1.h, obj, key[i]).hd, key, i + 1, pv>>)
  ELSE Run("Write", <<M, obj, key[i], pv>>)

StoreSet(M, root, key, pv) ==
  Run("resume", <<Run("StoreSetWalk", <<pause(M, root), ProxyOf(root), key, 1, pv>>), root>>)

\* JSONStore.get(key): undefined for a missing key and for an empty object
StoreGetWalk(h, r, key, i) ==
  IF r.t = "u" \/ i > Len(key) THEN r
  ELSE IF r.t # "o" THEN RefUndef
  ELSE Run("StoreGetWalk", <<h, Read(h, r.hd, key[i]), key, i + 1>>)

StoreGetRef(h, root, key) ==
  LET r == Run("StoreGetWalk", <<h, RefObj(ProxyOf(root), FALSE, TRUE), key, 1>>)
  IN IF r.t = "o" /\ ~r.arr /\ KeyCount(h, r.hd) = 0 THEN RefUndef ELSE r

StoreGet(h, root, key) == Run("RefToPV", <<h, Run("StoreGetRef", <<h, root, key>>)>>)

\* JSONStore.has(key)
StoreHas(h, root, key) ==
  Run("StoreGetWalk", <<h, RefObj(ProxyOf(root), FALSE, TRUE), key, 1>>).t # "u"

\* Object.keys(x).length; -1 stands for the TypeError on undefined
ObjectKeysLen(h, r) ==
  IF r.t = "u" THEN -1
  ELSE IF r.t = "o" THEN KeyCount(h, r.hd)
  ELSE IF r.s \in StringScalars THEN Len(r.s) - 2
  ELSE 0

\* JSONStore.delete(key).  D = [M, found, threw]; data is what the loop
\* variable `data` holds, stack the ancestors pushed so far, i the 1-based
\* loop index.

\* while (data = stack.pop()) { if (Object.keys(data[key[--i]]).length) break; delete data[key[i]]; }
\* then the for loop goes on with i + 1
StoreDeleteUnwind(D, stack, key, i) ==
  IF Len(stack) = 0 THEN D
  ELSE LET d == stack[Len(stack)]
           rest == SubSeq(stack, 1, Len(stack) - 1)
           n == ObjectKeysLen(D.M.h, Read(D.M.h, d, key[i - 1]))
       IN IF n < 0 THEN [D EXCEPT !.threw = "TypeError"]
          ELSE IF n > 0
          THEN Run("StoreDeleteLoop", <<D, RefObj(d, FALSE, FALSE), rest, key, i>>)
          ELSE Run("StoreDeleteUnwind", <<[D EXCEPT !.M = Run("Remove", <<D.M, d, key[i - 1]>>)], rest, key, i - 1>>)

StoreDeleteLoop(D, data, stack, key, i) ==
  IF data.t = "u" \/ i > Len(key) THEN D
  ELSE IF data.t # "o" THEN D
  ELSE IF ~HasOwn(D.M.h, data.hd, key[i]) THEN D
  ELSE IF i = Len(key)
  THEN Run("StoreDeleteUnwind", <<[D EXCEPT !.found = TRUE, !.M = Run("Remove", <<D.M, data.hd, key[i]>>)],
                         stack, key, i>>)
  ELSE Run("StoreDeleteLoop", <<D, Read(D.M.h, data.hd, key[i]), Append(stack, data.hd), key, i + 1>>)

StoreDelete(M, root, key) ==
  Run("StoreDeleteLoop", <<[M |-> M, found |-> FALSE, threw |-> "none"],
                  RefObj(ProxyOf(root), FALSE, TRUE), <<>>, key, 1>>)

\* JSONStore.merge(data)
StoreMerge(M, root, pv) == Run("NodeMerge", <<M, root, pv>>)

\* new JSONStore(): this.data = new Node({})
NewStore(M) == Run("NewNode", <<M, O(<<>>), 0>>)

(***************************************************************************)
(* Schemas and validate().  A schema node has a Joi type, the readonly     *)
(* meta flag and, for objects that declare keys, its child schemas.        *)
(***************************************************************************)
SchemaNode(type, ro, hasKeys, keys) ==
  [type |-> type, readonly |-> ro, hasKeys |-> hasKeys, keys |-> keys]
NoSchema == SchemaNode("none", FALSE, FALSE, <<>>)
JAny(ro) == SchemaNode("any", ro, FALSE, <<>>)
JNumber(ro) == SchemaNode("number", ro, FALSE, <<>>)
JString(ro) == SchemaNode("string", ro, FALSE, <<>>)
JObject(ro, keys) == SchemaNode("object", ro, TRUE, keys)
JKey(k, sch) == [k |-> k, sch |-> sch]

\* Joi.attempt(value, schema, { allowUnknown, noDefaults: true }) succeeds
RECURSIVE JoiAccepts(_, _, _)
JoiAccepts(pv, sch, allowUnknown) ==
  IF sch.type = "any" THEN TRUE
  ELSE IF sch.type = "string" THEN pv.kind = "s" /\ pv.s \in StringScalars
  ELSE IF sch.type = "number" THEN pv.kind = "s" /\ pv.s \notin StringScalars
  ELSE /\ pv.kind = "o"
       /\ \A i \in 1..Len(pv.kv) :
            IF HasKey(sch.keys, pv.kv[i].k)
            THEN JoiAccepts(pv.kv[i].v, sch.keys[IndexOf(sch.keys, pv.kv[i].k)].sch,
                            allowUnknown)
            ELSE ~sch.hasKeys \/ allowUnknown

\* the schemas of the next scope: item.schema for each item.key === scope
RECURSIVE ScopeSchemas(_, _)
ScopeSchemas(schemas, scope) ==
  IF Len(schemas) = 0 THEN <<>>
  ELSE (IF Head(schemas).type = "object" /\ HasKey(Head(schemas).keys, scope)
        THEN <<Head(schemas).keys[IndexOf(Head(schemas).keys, scope)].sch>>
        ELSE <<>>) \o ScopeSchemas(Tail(schemas), scope)

\* the for loop of walk(): the first error thrown, "ok" if none
RECURSIVE WalkCheck(_, _, _, _, _)
WalkCheck(schemas, atEnd, pv, action, allowUnknown) ==
  IF Len(schemas) = 0 THEN "ok"
  ELSE IF action # "load" /\ Head(schemas).readonly THEN "ReadOnlyProperty"
  ELSE IF atEnd /\ pv # Undefined /\ ~JoiAccepts(pv, Head(schemas), allowUnknown)
  THEN "ValidationError"
  ELSE WalkCheck(Tail(schemas), atEnd, pv, action, allowUnknown)

RECURSIVE walk(_, _, _, _, _)
walk(key, schemas, pv, action, allowUnknown) ==
  LET res == WalkCheck(schemas, Len(key) = 0, pv, action, allowUnknown)
      next == IF Len(key) = 0 THEN <<>> ELSE ScopeSchemas(schemas, Head(key))
  IN IF res # "ok" THEN res
     ELSE IF Len(next) > 0 THEN walk(Tail(key), next, pv, action, allowUnknown)
     ELSE "ok"

\* validate({ schemas, key, value, action }): "ok" or the error thrown
validate(schemas, key, pv, action, allowUnknown) ==
  walk(key, SelectSeq(schemas, LAMBDA sc : sc.type # "none"), pv, action, allowUnknown)

(***************************************************************************)
(* Layer.  X = [h, ev, L, layers, map]: the node heap, the listeners       *)
(* invoked so far, the Layer objects, LayerList.layers and LayerList.map.  *)
(***************************************************************************)
Base == "Base"
NoNamespace == ""
NegInfinity == -1000

LayerRec(id, ns, order, ro, static, schema, store) ==
  [id |-> id, namespace |-> ns, order |-> order, readonly |-> ro, static |-> static,
   schema |-> schema, store |-> store, wmap |-> <<>>, gen |-> 0]

\* Layer.resolveKey(key): null when the key is outside the namespace
resolveKey(lay, key) ==
  IF Len(key) > 0 /\ lay.namespace # NoNamespace
  THEN IF key[1] = lay.namespace THEN [null |-> FALSE, key |-> Tail(key)]
       ELSE [null |-> TRUE, key |-> <<>>]
  ELSE [null |-> FALSE, key |-> key]

\* the schemas the layer's validator hands to validate(): the Base layer's
\* own validator uses its schema, the validator LayerList.add installs puts
\* the schema of the Base layer of the list first
LayerSchemas(X, oid) ==
  LET own == X.L[oid].schema
      bases == SelectSeq(X.layers, LAMBDA o : X.L[o].id = Base)
      base == IF Len(bases) > 0 THEN X.L[bases[1]].schema ELSE NoSchema
  IN IF X.L[oid].id = Base THEN <<own>> ELSE <<base, own>>

AllowUnknown == TRUE

LayerValidate(X, oid, key, pv, action) ==
  validate(LayerSchemas(X, oid), key, pv, action, AllowUnknown)

Machine(X) == [h |-> X.h, ev |-> X.ev]
WithMachine(X, M) == [X EXCEPT !.h = M.h, !.ev = M.ev]

\* Layer.set that validates before it looks at this.readonly
LayerSetValidatingFirst(X, oid, key, pv, action) ==
  LET lay == X.L[oid]
      v == LayerValidate(X, oid, key, pv, action)
      rk == resolveKey(lay, key)
  IN IF Len(key) = 0 THEN [X |-> X, threw |-> "MissingKey"]
     ELSE IF v # "ok" THEN [X |-> X, threw |-> v]
     ELSE IF lay.readonly THEN [X |-> X, threw |-> "LayerReadonly"]
     ELSE IF rk.null THEN [X |-> X, threw |-> "none"]
     ELSE [X |-> WithMachine(X, Run("StoreSet", <<Machine(X), lay.store, rk.key, pv>>)),
           threw |-> "none"]

\* Layer.set(key, value, action): R = [X, threw]
LayerSet(X, oid, key, pv, action) ==
  LET lay == X.L[oid]
      v == LayerValidate(X, oid, key, pv, action)
      rk == resolveKey(lay, key)
  IN IF lay.readonly THEN [X |-> X, threw |-> "LayerReadonly"]
     ELSE IF Len(key) = 0 THEN [X |-> X, threw |-> "MissingKey"]
     ELSE IF v # "ok" THEN [X |-> X, threw |-> v]
     ELSE IF rk.null THEN [X |-> X, threw |-> "none"]
     ELSE [X |-> WithMachine(X, Run("StoreSet", <<Machine(X), lay.store, rk.key, pv>>)),
           threw |-> "none"]

\* Layer.delete(key): R = [X, threw, deleted]
LayerDelete(X, oid, key) ==
  LET lay == X.L[oid]
      v == LayerValidate(X, oid, key, Undefined, "delete")
      rk == resolveKey(lay, key)
      D == Run("StoreDelete", <<Machine(X), lay.store, rk.key>>)
  IN IF lay.readonly THEN [X |-> X, threw |-> "LayerReadonly", deleted |-> FALSE]
     ELSE IF Len(key) = 0 THEN [X |-> X, threw |-> "MissingKey", deleted |-> FALSE]
     ELSE IF v # "ok" THEN [X |-> X, threw |-> v, deleted |-> FALSE]
     ELSE IF rk.null THEN [X |-> X, threw |-> "none", deleted |-> FALSE]
     ELSE [X |-> WithMachine(X, D.M), threw |-> D.threw, deleted |-> D.found]

\* Layer.merge(value): R = [X, threw]
LayerMerge(X, oid, pv) ==
  LET lay == X.L[oid]
      v == LayerValidate(X, oid, <<>>, pv, "merge")
      inner == IF lay.namespace = NoNamespace THEN pv ELSE PVGet(pv, lay.namespace)
  IN IF lay.readonly THEN [X |-> X, threw |-> "LayerReadonly"]
     ELSE IF v # "ok" THEN [X |-> X, threw |-> v]
     ELSE IF inner.kind = "o"
     THEN [X |-> WithMachine(X, Run("StoreMerge", <<Machine(X), lay.store, inner>>)), threw |-> "none"]
     ELSE [X |-> X, threw |-> "none"]

\* Layer.get(key)
LayerGet(h, lay, key) ==
  LET rk == resolveKey(lay, key)
      got == Run("StoreGet", <<h, lay.store, rk.key>>)
      value == IF Len(rk.key) = 0 /\ got = Undefined THEN O(<<>>) ELSE got
  IN IF rk.null THEN Undefined
     ELSE IF Len(key) > 0 /\ lay.namespace # NoNamespace /\ key[1] = lay.namespace
     THEN value
     ELSE IF lay.namespace # NoNamespace THEN O(<<KV(lay.namespace, value)>>)
     ELSE value

\* Layer.has(key)
LayerHas(h, lay, key) ==
  LET rk == resolveKey(lay, key)
  IN IF rk.null THEN FALSE
     ELSE IF Len(key) = 1 /\ lay.namespace # NoNamespace /\ key[1] = lay.namespace THEN TRUE
     ELSE Run("StoreHas", <<h, lay.store, rk.key>>)
\* Layer.watch(filter, handler): wrapped = obj => handler(obj, this)
Listener(oid, desc, gen) == [lay |-> oid, hd |-> desc.hd, f |-> desc.f, gen |-> gen]

WmapPut(wmap, desc, l) ==
  IF \E i \in 1..Len(wmap) : wmap[i].d = desc
  THEN [wmap EXCEPT ![CHOOSE i \in 1..Len(wmap) : wmap[i].d = desc].l = l]
  ELSE Append(wmap, [d |-> desc, l |-> l])

LayerWatch(X, oid, filter, desc) ==
  LET lay == X.L[oid]
      l == Listener(oid, desc, lay.gen)
      M == NodeWatch(Machine(X), lay.store, filter, l)
  IN [WithMachine(X, M) EXCEPT !.L[oid].wmap = WmapPut(lay.wmap, desc, l),
                               !.L[oid].gen = lay.gen + 1]

\* Layer.unwatch(handler)
LayerUnwatch(X, oid, desc) ==
  LET lay == X.L[oid]
      has == \E i \in 1..Len(lay.wmap) : lay.wmap[i].d = desc
      i == CHOOSE j \in 1..Len(lay.wmap) : lay.wmap[j].d = desc
  IN IF ~has THEN X
     ELSE [WithMachine(X, NodeUnwatch(Machine(X), lay.store, lay.wmap[i].l))
             EXCEPT !.L[oid].wmap = RemoveAt(lay.wmap, i)]

(***************************************************************************)
(* LayerList                                                               *)
(***************************************************************************)
\* the position after which add() splices the layer in; Len(list) when the
\* loop finds none and the layer is pushed
RECURSIVE InsertAfter(_, _, _, _)
InsertAfter(L, list, order, i) ==
  IF i = 0 THEN Len(list)
  ELSE IF order >= L[list[i]].order THEN i
  ELSE InsertAfter(L, list, order, i - 1)

InsertLayer(L, list, oid) ==
  LET p == InsertAfter(L, list, L[oid].order, Len(list))
  IN SubSeq(list, 1, p) \o <<oid>> \o SubSeq(list, p + 1, Len(list))

RemoveId(L, list, id) ==
  IF \E i \in 1..Len(list) : L[list[i]].id = id
  THEN RemoveAt(list, CHOOSE i \in 1..Len(list) :
                        /\ L[list[i]].id = id
                        /\ \A j \in 1..(i - 1) : L[list[j]].id # id)
  ELSE list

AttachWatchers(X, oid, ws) ==
  IF Len(ws) = 0 THEN X
  ELSE Run("AttachWatchers", <<Run("LayerWatch", <<X, oid, Head(ws).filter, Head(ws).handler>>), oid, Tail(ws)>>)

\* { id }: the constructor arguments LayerList.add makes of a bare id
NoFile == O(<<>>)
LayerSpec(id) ==
  [id |-> id, has |-> {}, namespace |-> NoNamespace, order |-> 0, readonly |-> FALSE,
   static |-> FALSE, schema |-> NoSchema, file |-> NoFile]

\* LayerList.add(layer) with an object of constructor arguments; has names
\* the own properties of that object
LayerListAdd(X, ws, spec) ==
  LET existing == X.map[spec.id]
      inherit(prop, given) ==
        IF prop \in spec.has \/ existing = 0 THEN given ELSE X.L[existing][prop]
      oid == Len(X.L) + 1
      M == Run("NewStore", <<Machine(X)>>)
      lay == LayerRec(spec.id,
                      inherit("namespace", IF "namespace" \in spec.has THEN spec.namespace
                                           ELSE NoNamespace),
                      inherit("order", IF "order" \in spec.has THEN spec.order ELSE 0),
                      inherit("readonly", "readonly" \in spec.has /\ spec.readonly),
                      inherit("static", "static" \in spec.has /\ spec.static),
                      inherit("schema", IF "schema" \in spec.has THEN spec.schema
                                        ELSE NoSchema),
                      Len(M.h))
      L1 == Append(X.L, lay)
      list == IF existing # 0 THEN RemoveId(X.L, X.layers, spec.id) ELSE X.layers
      X1 == [WithMachine(X, M) EXCEPT !.L = L1,
                                      !.map[spec.id] = oid,
                                      !.layers = InsertLayer(L1, list, oid)]
      \* new Layer(opts) loads opts.file into the store before the layer is
      \* listed: Node.merge(this.data, data)
      X2 == IF spec.file.kind = "o" /\ Len(spec.file.kv) > 0
            THEN [WithMachine(X1, Run("StoreMerge", <<Machine(X1), lay.store, spec.file>>))
                    EXCEPT !.ev = X1.ev]
            ELSE X1
  IN Run("AttachWatchers", <<X2, oid, ws>>)

\* LayerList.add(layer) with a Layer instance that is already in the list
LayerListAddInstance(X, ws, oid) ==
  LET id == X.L[oid].id
      list == IF X.map[id] # 0 THEN RemoveId(X.L, X.layers, id) ELSE X.layers
      X1 == [X EXCEPT !.map[id] = oid, !.layers = InsertLayer(X.L, list, oid)]
  IN Run("AttachWatchers", <<X1, oid, ws>>)

\* LayerList.query(id, reverse): the ids looked up; "none" is undefined
Reverse(seq) == AsTuple([i \in 1..Len(seq) |-> seq[Len(seq) + 1 - i]])
NoId == "none"
QueryFound(X, id) == id = NoId \/ X.map[id] # 0
\* query() that forgets to reverse the ids
QueryForward(X, id, reverse) ==
  LET ids == IF id = NoId THEN AsTuple([i \in 1..Len(X.layers) |-> X.L[X.layers[i]].id])
             ELSE <<id>>
  IN AsTuple([i \in 1..Len(ids) |-> X.map[ids[i]]])
Query(X, id, reverse) ==
  LET ids == IF id = NoId THEN AsTuple([i \in 1..Len(X.layers) |-> X.L[X.layers[i]].id])
             ELSE <<id>>
      out == AsTuple([i \in 1..Len(ids) |-> X.map[ids[i]]])
  IN IF reverse THEN Reverse(out) ELSE out

\* the argument of query(): undefined or All, or an array of ids
AllLayers == [all |-> TRUE, ids |-> <<>>]
TheseLayers(ids) == [all |-> FALSE, ids |-> ids]

\* query() that throws as soon as one of the requested ids is missing
QueryAnyMissing(X, q, reverse) ==
  LET ids == IF q.all THEN AsTuple([i \in 1..Len(X.layers) |-> X.L[X.layers[i]].id])
             ELSE SelectSeq(q.ids, LAMBDA id : X.map[id] # 0)
      out == AsTuple([i \in 1..Len(ids) |-> X.map[ids[i]]])
  IN IF ~q.all /\ Len(ids) < Len(q.ids) THEN [threw |-> "NotFound", out |-> <<>>]
     ELSE [threw |-> "none", out |-> IF reverse THEN Reverse(out) ELSE out]

\* LayerList.query(id, reverse) with an array of ids: R = [threw, out], out
\* the layers the iterator yields
LayerListQuery(X, q, reverse) ==
  LET ids == IF q.all THEN AsTuple([i \in 1..Len(X.layers) |-> X.L[X.layers[i]].id])
             ELSE SelectSeq(q.ids, LAMBDA id : X.map[id] # 0)
      out == AsTuple([i \in 1..Len(ids) |-> X.map[ids[i]]])
  IN IF ~q.all /\ Len(ids) = 0 THEN [threw |-> "NotFound", out |-> <<>>]
     ELSE [threw |-> "none", out |-> IF reverse THEN Reverse(out) ELSE out]

\* LayerList.remove(id): R = [X, threw, removed]
LayerListRemove(X, id) ==
  LET oid == X.map[id]
      inList == \E i \in 1..Len(X.layers) : X.L[X.layers[i]].id = id
      X1 == IF oid # 0 THEN [X EXCEPT !.map[id] = 0] ELSE X
  IN IF oid # 0 /\ X.L[oid].static
     THEN [X |-> X, threw |-> "StaticLayer", removed |-> FALSE]
     ELSE [X |-> [X1 EXCEPT !.layers = RemoveId(X.L, X.layers, id)],
           threw |-> "none", removed |-> inList]

\* LayerList.watch(filter, handler): R = [X, ws]
WatchAll(X, list, filter, desc) ==
  IF Len(list) = 0 THEN X
  ELSE Run("WatchAll", <<Run("LayerWatch", <<X, Head(list), filter, desc>>), Tail(list), filter, desc>>)

\* LayerList.unwatch(handler)
UnwatchAll(X, list, desc) ==
  IF Len(list) = 0 THEN X
  ELSE Run("UnwatchAll", <<Run("LayerUnwatch", <<X, Head(list), desc>>), Tail(list), desc>>)

(***************************************************************************)
(* hashValue(filter) of util: djb2 over JSON.stringify(filter), read from  *)
(* the last character to the first, kept as an unsigned 32 bit number in   *)
(* two 16 bit halves.                                                      *)
(***************************************************************************)
CharCodes(seg) ==
  CASE seg = "foo" -> <<102, 111, 111>>
    [] seg = "bar" -> <<98, 97, 114>>
    [] seg = "baz" -> <<98, 97, 122>>
    [] seg = "qux" -> <<113, 117, 120>>
    [] seg = "a" -> <<97>>
    [] seg = "b" -> <<98>>
    [] seg = "x" -> <<120>>
    [] OTHER -> <<63>>

RECURSIVE JsonSegments(_)
JsonSegments(filter) ==
  IF Len(filter) = 0 THEN <<>>
  ELSE <<34>> \o CharCodes(Head(filter)) \o <<34>>
       \o (IF Len(filter) > 1 THEN <<44>> ELSE <<>>) \o JsonSegments(Tail(filter))

JsonCodes(filter) == <<91>> \o JsonSegments(filter) \o <<93>>

RECURSIVE BitXor(_, _, _)
BitXor(a, b, bits) ==
  IF bits = 0 THEN 0
  ELSE ((a + b) % 2) + 2 * BitXor(a \div 2, b \div 2, bits - 1)

\* hash * 33 ^ c, with the operands of ^ taken to 32 bits
HashStep(hv, c) ==
  LET lo == hv.lo * 33
      hi == (hv.hi * 33 + (lo \div 65536)) % 65536
      lo16 == lo % 65536
  IN [hi |-> hi, lo |-> lo16 - (lo16 % 128) + BitXor(lo16 % 128, c, 7)]

RECURSIVE HashLoop(_, _, _)
HashLoop(codes, i, hv) ==
  IF i = 0 THEN hv ELSE HashLoop(codes, i - 1, HashStep(hv, codes[i]))

hashValue(filter) ==
  LET codes == JsonCodes(filter) IN HashLoop(codes, Len(codes), [hi |-> 0, lo |-> 5381])

HashLess(p, q) == p.hi < q.hi \/ (p.hi = q.hi /\ p.lo < q.lo)

(***************************************************************************)
(* Config.  X also carries LayerList.watchers, Config.watcherMap,          *)
(* Config.paused, Config.pending and the handlers called so far.  X.todo   *)
(* is the position of the loop over the layers a call targets: the number  *)
(* of targeted layers the call has not yet been applied to.                *)
(***************************************************************************)
Desc(hd, f) == [hd |-> hd, f |-> f]

\* Object.entries(this.pending): integer keys come in ascending order
RECURSIVE SortPending(_)
SortPending(pend) ==
  IF Len(pend) = 0 THEN pend
  ELSE LET m == CHOOSE i \in 1..Len(pend) :
                  \A j \in 1..Len(pend) :
                    j = i \/ HashLess(hashValue(pend[i].f), hashValue(pend[j].f))
       IN <<pend[m]>> \o SortPending(RemoveAt(pend, m))

\* this.pending[filterHash].set(key, { args, filter }): the key of the Map is
\* the handler given to Config.watch (w = FALSE) or, for the entries that
\* Config.load makes, the wrapped handler LayerList.watchers holds (w = TRUE)
PendingSetKey(pend, f, hd, lay, w) ==
  LET has == \E i \in 1..Len(pend) : pend[i].f = f
      i == CHOOSE j \in 1..Len(pend) : pend[j].f = f
      hs == pend[i].hs
      hasH == \E k \in 1..Len(hs) : hs[k].hd = hd /\ hs[k].w = w
      k == CHOOSE n \in 1..Len(hs) : hs[n].hd = hd /\ hs[n].w = w
      e == [hd |-> hd, lay |-> lay, w |-> w]
  IN IF ~has THEN Append(pend, [f |-> f, hs |-> <<e>>])
     ELSE IF hasH THEN [pend EXCEPT ![i].hs[k].lay = lay]
     ELSE [pend EXCEPT ![i].hs = Append(@, e)]

PendingSet(pend, f, hd, lay) == PendingSetKey(pend, f, hd, lay, FALSE)

\* the inner loop of Config._notify over one Map: R = [X, nested].  A key
\* that is a wrapped handler records the handler in this.pending and, the
\* Config not being paused, calls _notify() from inside the loop.
NotifyHandlers(X, f, hs, nested) ==
  IF Len(hs) = 0 THEN [X |-> X, nested |-> nested]
  ELSE IF Head(hs).w
  THEN Run("NotifyHandlers",
           <<Run("Wrapped", <<X, [f |-> f, hd |-> Head(hs).hd, lay |-> Head(hs).lay]>>),
             f, Tail(hs), TRUE>>)
  ELSE Run("NotifyHandlers",
           <<[X EXCEPT !.calls = Append(@, [hd |-> Head(hs).hd, f |-> f,
                                           lay |-> Head(hs).lay, todo |-> X.todo])],
             f, Tail(hs), nested>>)

\* the outer loop of Config._notify over the entries it read at its start.
\* A _notify() called from inside the loop empties every Map that is still
\* in this.pending, those of the entries not yet visited included.
NotifyEntries(X, entries) ==
  IF Len(entries) = 0 THEN X
  ELSE LET e == Head(entries)
           X1 == [X EXCEPT !.pending = SelectSeq(@, LAMBDA q : q.f # e.f)]
           R == Run("NotifyHandlers", <<X1, e.f, e.hs, FALSE>>)
       IN IF R.nested THEN R.X ELSE Run("NotifyEntries", <<R.X, Tail(entries)>>)

\* Config._notify()
Notify(X) == Run("NotifyEntries", <<X, SortPending(X.pending)>>)

\* desc.wrapped(obj, layer) of Config.watch, called by the listener l
Wrapped(X, l) ==
  LET X1 == [X EXCEPT !.pending = PendingSet(@, l.f, l.hd, l.lay)]
  IN IF X.paused = 0 THEN Notify(X1) ELSE X1

\* the listeners a store operation invoked, in the order it invoked them
Deliver(X) ==
  IF Len(X.ev) = 0 THEN X
  ELSE Run("Deliver", <<Run("Wrapped", <<[X EXCEPT !.ev = Tail(@)], Head(X.ev)>>)>>)

Pause(X) == [X EXCEPT !.paused = @ + 1]
Resume(X) ==
  LET p == IF X.paused > 0 THEN X.paused - 1 ELSE 0
      X1 == [X EXCEPT !.paused = p]
  IN IF p = 0 THEN Notify(X1) ELSE X1

\* replace() of Config.get for values that hold no {{template}}
RECURSIVE Replace(_)
Replace(pv) ==
  IF pv.kind = "s" THEN pv
  ELSE LET kv == IF pv.kind = "a" THEN IndexPart(pv.kv) ELSE pv.kv
       IN [pv EXCEPT !.kv = AsTuple([i \in 1..Len(kv) |-> KV(kv[i].k, Replace(kv[i].v))])]

\* merge(src, dest) of Config.get
RECURSIVE GetMerge(_, _)
GetMerge(kvs, dest) ==
  IF Len(kvs) = 0 THEN dest
  ELSE LET key == Head(kvs).k
           srcValue == Head(kvs).v
           d == PVGet(dest, key)
       IN IF srcValue.kind = "o" /\ IsObjectLike(d)
          THEN GetMerge(Tail(kvs), PVPut(dest, key, GetMerge(srcValue.kv, d)))
          ELSE GetMerge(Tail(kvs), PVPut(dest, key, srcValue))

MergeObjects(objects, result) ==
  IF Len(objects) = 0 THEN result
  ELSE Run("MergeObjects", <<Tail(objects), GetMerge(Head(objects).kv, result)>>)

\* the loop of Config.get over the layers, highest precedence first
GetLoop(X, oids, key, objects) ==
  IF Len(oids) = 0
  THEN IF Len(objects) > 0 THEN Run("MergeObjects", <<objects, O(<<>>)>>)
       ELSE IF Len(key) > 0 THEN Undefined ELSE O(<<>>)
  ELSE LET value == Replace(Run("LayerGet", <<X.h, X.L[Head(oids)], key>>))
       IN IF value = Undefined THEN Run("GetLoop", <<X, Tail(oids), key, objects>>)
          ELSE IF value.kind # "o" THEN value
          ELSE Run("GetLoop", <<X, Tail(oids), key, <<value>> \o objects>>)

\* Config.get(key, undefined, id)
ConfigGet(X, key, id) ==
  IF ~QueryFound(X, id) THEN Undefined
  ELSE Run("GetLoop", <<X, SelectSeq(Query(X, id, TRUE), LAMBDA o : o # 0), key, <<>>>>)

\* Config.has(key, id): R = [threw, has]
ConfigHas(X, key, id) ==
  LET oids == SelectSeq(Query(X, id, TRUE), LAMBDA o : o # 0)
  IN IF ~QueryFound(X, id) THEN [threw |-> "NotFound", has |-> FALSE]
     ELSE [threw |-> "none",
           has |-> \E i \in 1..Len(oids) : LayerHas(X.h, X.L[oids[i]], key)]
\* the for loop of Config._mutate over unique(id || this.resolve()):
\* R = [X, threw]; a throw leaves the loop and _mutate at once
MutateLoop(X, ids, key, pv, action) ==
  IF Len(ids) = 0 THEN [X |-> X, threw |-> "none"]
  ELSE LET X1 == IF X.map[Head(ids)] # 0 THEN X
                 ELSE Run("LayerListAdd", <<X, X.watchers, LayerSpec(Head(ids))>>)
           R == Run("LayerSet", <<X1, X1.map[Head(ids)], key, pv, action>>)
           X2 == [R.X EXCEPT !.todo = Len(ids) - 1]
       IN IF R.threw # "none" THEN [X |-> Run("Deliver", <<X2>>), threw |-> R.threw]
          ELSE Run("MutateLoop", <<Run("Deliver", <<X2>>), Tail(ids), key, pv, action>>)

\* Config.set(key, value, id)
ConfigSet(X, key, pv, id, resolved) ==
  LET R == Run("MutateLoop", <<Pause(X), IF id = NoId THEN resolved ELSE <<id>>, key, pv, "set">>)
  IN IF R.threw # "none" THEN R ELSE [X |-> Resume(R.X), threw |-> "none"]

\* the elements of a value read with Config.get, as unique() and the spread
\* [ ...value ] see them: an array that is a copy, or one value
Null == S("null")
\* the elements of a value as unique() and the spread [ ...value ] see them:
\* those of an array, or the one value
ArrayItems(pv) ==
  IF pv.kind = "a"
  THEN LET cells == IndexPart(pv.kv) IN AsTuple([i \in 1..Len(cells) |-> cells[i].v])
  ELSE <<pv>>
ArrayOf(items) == A(AsTuple([i \in 1..Len(items) |-> KV(ToString(i - 1), items[i])]))

\* the reduce of unique(): undefined and null are dropped, and a value that
\* prev.indexOf finds is dropped; two objects are never the same reference
RECURSIVE UniqueInto(_, _)
UniqueInto(items, prev) ==
  IF Len(items) = 0 THEN prev
  ELSE LET cur == Head(items)
       IN IF cur = Undefined \/ cur = Null THEN UniqueInto(Tail(items), prev)
          ELSE IF cur.kind = "s" /\ \E i \in 1..Len(prev) : prev[i] = cur
          THEN UniqueInto(Tail(items), prev)
          ELSE UniqueInto(Tail(items), Append(prev, cur))

\* unique(arr = [])
unique(pv) == IF pv = Undefined THEN <<>> ELSE UniqueInto(ArrayItems(pv), <<>>)

\* the array branch with push treated as unshift
MutateValuePrepend(existing, pv, action) ==
  LET n == Len(existing)
  IN IF action = "pop"
     THEN [result |-> IF n = 0 THEN Undefined ELSE existing[n],
           value |-> SubSeq(existing, 1, n - 1)]
     ELSE IF action = "shift"
     THEN [result |-> IF n = 0 THEN Undefined ELSE existing[1],
           value |-> SubSeq(existing, 2, n)]
     ELSE [result |-> Undefined, value |-> UniqueInto(ArrayItems(pv) \o existing, <<>>)]

\* the array branch of Config._mutate: the value returned and the array
\* written for pop, shift, push and unshift on the existing elements
MutateValue(existing, pv, action) ==
  LET n == Len(existing)
  IN IF action = "pop"
     THEN [result |-> IF n = 0 THEN Undefined ELSE existing[n],
           value |-> SubSeq(existing, 1, n - 1)]
     ELSE IF action = "shift"
     THEN [result |-> IF n = 0 THEN Undefined ELSE existing[1],
           value |-> SubSeq(existing, 2, n)]
     ELSE IF action = "push"
     THEN [result |-> Undefined, value |-> UniqueInto(existing \o ArrayItems(pv), <<>>)]
     ELSE [result |-> Undefined, value |-> UniqueInto(ArrayItems(pv) \o existing, <<>>)]

\* Config._mutate for push, pop, shift and unshift: R = [X, threw, result]
ConfigMutate(X, key, pv, id, resolved, action) ==
  LET existing == unique(Run("ConfigGet", <<X, key, NoId>>))
      mv == MutateValue(existing, pv, action)
      R == Run("MutateLoop", <<Pause(X), IF id = NoId THEN resolved ELSE <<id>>, key,
                               ArrayOf(mv.value), action>>)
  IN IF Len(key) = 0 THEN [X |-> X, threw |-> "MissingKey", result |-> Undefined]
     ELSE IF R.threw # "none" THEN [X |-> R.X, threw |-> R.threw, result |-> Undefined]
     ELSE [X |-> Resume(R.X), threw |-> "none", result |-> mv.result]

\* the for loop of Config.delete: R = [X, threw, deleted]
DeleteLoop(X, oids, key, deleted) ==
  IF Len(oids) = 0 THEN [X |-> X, threw |-> "none", deleted |-> deleted]
  ELSE IF Head(oids) = 0 THEN Run("DeleteLoop", <<X, Tail(oids), key, deleted>>)
  ELSE LET R == Run("LayerDelete", <<X, Head(oids), key>>)
           X2 == [R.X EXCEPT !.todo = Len(oids) - 1]
       IN IF R.threw # "none"
          THEN [X |-> Run("Deliver", <<X2>>), threw |-> R.threw, deleted |-> deleted]
          ELSE Run("DeleteLoop", <<Run("Deliver", <<X2>>), Tail(oids), key,
                                   R.deleted \/ deleted>>)

\* Config.delete(key, id)
ConfigDelete(X, key, id) ==
  LET X1 == Pause(X)
      R == Run("DeleteLoop", <<X1, Query(X1, id, FALSE), key, FALSE>>)
  IN IF ~QueryFound(X, id) THEN [X |-> X1, threw |-> "NotFound", deleted |-> FALSE]
     ELSE IF R.threw # "none" THEN R
     ELSE [R EXCEPT !.X = Resume(R.X)]

\* the for loop of Config.merge: R = [X, threw]
MergeLoop(X, oids, pv) ==
  IF Len(oids) = 0 THEN [X |-> X, threw |-> "none"]
  ELSE IF Head(oids) = 0 THEN Run("MergeLoop", <<X, Tail(oids), pv>>)
  ELSE LET R == Run("LayerMerge", <<X, Head(oids), pv>>)
           X2 == [R.X EXCEPT !.todo = Len(oids) - 1]
       IN IF R.threw # "none" THEN [X |-> Run("Deliver", <<X2>>), threw |-> R.threw]
          ELSE Run("MergeLoop", <<Run("Deliver", <<X2>>), Tail(oids), pv>>)

\* Config.merge(data, id)
ConfigMerge(X, pv, id) ==
  IF pv.kind # "o" THEN [X |-> X, threw |-> "none"]
  ELSE IF ~QueryFound(X, id) THEN [X |-> X, threw |-> "NotFound"]
  ELSE Run("MergeLoop", <<X, Query(X, id, FALSE), pv>>)

\* Layer.get(filter) as a reference: the object Layer.get builds itself (the
\* {} for an empty store, the { [namespace]: value } wrapper) is no Node
FreshObject == RefObj(NoHandle, FALSE, FALSE)
LayerGetRef(h, lay, key) ==
  LET rk == resolveKey(lay, key)
      got == Run("StoreGetRef", <<h, lay.store, rk.key>>)
      value == IF Len(rk.key) = 0 /\ got.t = "u" THEN FreshObject ELSE got
  IN IF rk.null THEN RefUndef
     ELSE IF Len(key) > 0 /\ lay.namespace # NoNamespace /\ key[1] = lay.namespace
     THEN value
     ELSE IF lay.namespace # NoNamespace THEN FreshObject
     ELSE value

\* value?.[Node.Meta]?.hash
MetaHash(h, r) == IF r.t = "o" /\ r.meta THEN h[r.hd.id].hash ELSE UndefHash

\* existingValue !== newValue for values read from two layers: two objects
\* are never the same object
RefDiffers(a, b) == a.t = "o" \/ b.t = "o" \/ a # b

\* the loop of Config.load over this.layers.watchers after a reload.  The
\* caches per filterHash only save a second read of the same value.
LoadWatchers(X, ws, existing, oid) ==
  IF Len(ws) = 0 THEN X
  ELSE LET w == Head(ws)
           existingValue == LayerGetRef(X.h, X.L[existing], w.filter)
           newValue == LayerGetRef(X.h, X.L[oid], w.filter)
           existingHash == MetaHash(X.h, existingValue)
           newHash == MetaHash(X.h, newValue)
           changed == \/ existingHash # newHash
                      \/ /\ (existingHash = UndefHash \/ newHash = UndefHash)
                         /\ RefDiffers(existingValue, newValue)
           X1 == IF changed
                 THEN [X EXCEPT !.pending = PendingSetKey(@, w.filter, w.handler.hd, oid, TRUE)]
                 ELSE X
       IN Run("LoadWatchers", <<X1, Tail(ws), existing, oid>>)

\* the for loop of Config.load over unique(opts.id || this.resolve())
LoadLoop(X, ids, spec) ==
  IF Len(ids) = 0 THEN X
  ELSE LET existing == X.map[Head(ids)]
           X1 == Run("LayerListAdd", <<X, X.watchers, [spec EXCEPT !.id = Head(ids)]>>)
           X2 == IF existing = 0 THEN X1
                 ELSE Resume(Run("LoadWatchers", <<Pause(X1), X1.watchers, existing,
                                                   X1.map[Head(ids)]>>))
       IN Run("LoadLoop", <<X2, Tail(ids), spec>>)

\* Config.load(file, opts): spec is opts together with the content of the
\* file, spec.id = NoId when opts names no id
ConfigLoad(X, spec, resolved) ==
  Run("LoadLoop", <<X, IF spec.id = NoId THEN resolved ELSE <<spec.id>>, spec>>)

\* Config.watch(filter, handler)
ConfigWatch(X, filter, hd) ==
  IF SeqHas(X.watcherMap[hd], filter) THEN X
  ELSE LET X1 == [X EXCEPT !.watcherMap[hd] = Append(@, filter),
                           !.watchers = Append(@, [filter |-> filter,
                                                   handler |-> Desc(hd, filter)])]
       IN Run("WatchAll", <<X1, X1.layers, filter, Desc(hd, filter)>>)

\* LayerList.unwatch(desc.wrapped) for each desc of the handler
UnwatchDescs(X, hd, filters) ==
  IF Len(filters) = 0 THEN X
  ELSE LET d == Desc(hd, Head(filters))
           X1 == [X EXCEPT !.watchers = SelectSeq(@, LAMBDA w : w.handler # d)]
       IN Run("UnwatchDescs", <<Run("UnwatchAll", <<X1, X1.layers, d>>), hd, Tail(filters)>>)

\* Config.unwatch(handler)
ConfigUnwatch(X, hd) ==
  [Run("UnwatchDescs", <<X, hd, X.watcherMap[hd]>>) EXCEPT !.watcherMap[hd] = <<>>]

\* Config.unload(id): R = [X, threw, removed]
ConfigUnload(X, id) ==
  IF X.map[id] = 0 THEN [X |-> X, threw |-> "NotFound", removed |-> FALSE]
  ELSE Run("LayerListRemove", <<X, id>>)

\* LayerList.remove(layer) with a Layer object: this.map[layer] is undefined
LayerListRemoveObject(X, oid) ==
  IF \E i \in 1..Len(X.layers) : X.layers[i] = oid
  THEN [X EXCEPT !.layers = RemoveAt(@, CHOOSE i \in 1..Len(@) : @[i] = oid)]
  ELSE X

(***************************************************************************)
(* new Config({ data, schema, layers })                                    *)
(***************************************************************************)
LayerIds == {Base, "L1", "L2"}
Handlers == {"h1", "h2"}

EmptyWorld ==
  [h |-> <<>>, ev |-> <<>>, L |-> <<>>, layers |-> <<>>, map |-> [i \in LayerIds |-> 0],
   watchers |-> <<>>, watcherMap |-> [hd \in Handlers |-> <<>>], paused |-> 0,
   pending |-> <<>>, calls |-> <<>>, todo |-> 0]

\* new LayerList(opts): the Base layer, its store and its data
NewLayerList(schema, data) ==
  LET M == Run("NewStore", <<Machine(EmptyWorld)>>)
      lay == LayerRec(Base, NoNamespace, NegInfinity, FALSE, TRUE, schema, Len(M.h))
      X1 == [WithMachine(EmptyWorld, M) EXCEPT !.L = <<lay>>, !.layers = <<1>>,
                                                 !.map[Base] = 1]
  IN [Run("LayerMerge", <<X1, 1, data>>).X EXCEPT !.ev = <<>>]

AddLayers(X, specs) ==
  IF Len(specs) = 0 THEN X
  ELSE Run("AddLayers", <<Run("LayerListAdd", <<X, X.watchers, Head(specs)>>), Tail(specs)>>)

NewConfig(schema, data, specs) == Run("AddLayers", <<Run("NewLayerList", <<schema, data>>), specs>>)

(***************************************************************************)
(* Run(op, a) applies the operator named op to the arguments a.  The       *)
(* operators that model methods call each other through Run, which lets    *)
(* them be mutually recursive whatever the order of their definitions.     *)
(***************************************************************************)
Run(op, a) ==
  CASE op = "ArrayMethod" -> ArrayMethod(a[1], a[2], a[3], a[4])
    [] op = "LoadWatchers" -> LoadWatchers(a[1], a[2], a[3], a[4])
    [] op = "LoadLoop" -> LoadLoop(a[1], a[2], a[3])
    [] op = "ConfigLoad" -> ConfigLoad(a[1], a[2], a[3])
    [] op = "NotifyHandlers" -> NotifyHandlers(a[1], a[2], a[3], a[4])
    [] op = "NotifyEntries" -> NotifyEntries(a[1], a[2])
    [] op = "NotifyListeners" -> NotifyListeners(a[1], a[2], a[3])
    [] op = "NotifyParents" -> NotifyParents(a[1], a[2])
    [] op = "notify" -> notify(a[1], a[2])
    [] op = "RehashParents" -> RehashParents(a[1], a[2])
    [] op = "RehashKeys" -> RehashKeys(a[1], a[2], a[3])
    [] op = "rehash" -> rehash(a[1], a[2], a[3])
    [] op = "NewNode" -> NewNode(a[1], a[2], a[3])
    [] op = "ProxySet" -> ProxySet(a[1], a[2], a[3], a[4])
    [] op = "ProxyDelete" -> ProxyDelete(a[1], a[2], a[3])
    [] op = "resume" -> resume(a[1], a[2])
    [] op = "Write" -> Write(a[1], a[2], a[3], a[4])
    [] op = "Remove" -> Remove(a[1], a[2], a[3])
    [] op = "DetachAll" -> DetachAll(a[1], a[2], a[3])
    [] op = "SpliceAll" -> SpliceAll(a[1], a[2], a[3])
    [] op = "SpliceNode" -> SpliceNode(a[1], a[2], a[3], a[4], a[5], a[6])
    [] op = "SpliceAllPlain" -> SpliceAllPlain(a[1], a[2], a[3])
    [] op = "mix" -> mix(a[1], a[2], a[3])
    [] op = "NodeMerge" -> NodeMerge(a[1], a[2], a[3])
    [] op = "StoreSetWalk" -> StoreSetWalk(a[1], a[2], a[3], a[4], a[5])
    [] op = "StoreSet" -> StoreSet(a[1], a[2], a[3], a[4])
    [] op = "StoreDeleteUnwind" -> StoreDeleteUnwind(a[1], a[2], a[3], a[4])
    [] op = "StoreDeleteLoop" -> StoreDeleteLoop(a[1], a[2], a[3], a[4], a[5])
    [] op = "StoreDelete" -> StoreDelete(a[1], a[2], a[3])
    [] op = "StoreMerge" -> StoreMerge(a[1], a[2], a[3])
    [] op = "NewStore" -> NewStore(a[1])
    [] op = "ToPV" -> ToPV(a[1], a[2])
    [] op = "CellsToKV" -> CellsToKV(a[1], a[2])
    [] op = "RefToPV" -> RefToPV(a[1], a[2])
    [] op = "StoreGetWalk" -> StoreGetWalk(a[1], a[2], a[3], a[4])
    [] op = "StoreGetRef" -> StoreGetRef(a[1], a[2], a[3])
    [] op = "StoreGet" -> StoreGet(a[1], a[2], a[3])
    [] op = "StoreHas" -> StoreHas(a[1], a[2], a[3])
    [] op = "LayerSet" -> LayerSet(a[1], a[2], a[3], a[4], a[5])
    [] op = "LayerDelete" -> LayerDelete(a[1], a[2], a[3])
    [] op = "LayerMerge" -> LayerMerge(a[1], a[2], a[3])
    [] op = "LayerGet" -> LayerGet(a[1], a[2], a[3])
    [] op = "LayerWatch" -> LayerWatch(a[1], a[2], a[3], a[4])
    [] op = "LayerUnwatch" -> LayerUnwatch(a[1], a[2], a[3])
    [] op = "AttachWatchers" -> AttachWatchers(a[1], a[2], a[3])
    [] op = "LayerListAdd" -> LayerListAdd(a[1], a[2], a[3])
    [] op = "LayerListAddInstance" -> LayerListAddInstance(a[1], a[2], a[3])
    [] op = "LayerListRemove" -> LayerListRemove(a[1], a[2])
    [] op = "WatchAll" -> WatchAll(a[1], a[2], a[3], a[4])
    [] op = "UnwatchAll" -> UnwatchAll(a[1], a[2], a[3])
    [] op = "Wrapped" -> Wrapped(a[1], a[2])
    [] op = "Deliver" -> Deliver(a[1])
    [] op = "MergeObjects" -> MergeObjects(a[1], a[2])
    [] op = "GetLoop" -> GetLoop(a[1], a[2], a[3], a[4])
    [] op = "ConfigGet" -> ConfigGet(a[1], a[2], a[3])
    [] op = "MutateLoop" -> MutateLoop(a[1], a[2], a[3], a[4], a[5])
    [] op = "ConfigSet" -> ConfigSet(a[1], a[2], a[3], a[4], a[5])
    [] op = "ConfigMutate" -> ConfigMutate(a[1], a[2], a[3], a[4], a[5], a[6])
    [] op = "DeleteLoop" -> DeleteLoop(a[1], a[2], a[3], a[4])
    [] op = "ConfigDelete" -> ConfigDelete(a[1], a[2], a[3])
    [] op = "MergeLoop" -> MergeLoop(a[1], a[2], a[3])
    [] op = "ConfigMerge" -> ConfigMerge(a[1], a[2], a[3])
    [] op = "ConfigWatch" -> ConfigWatch(a[1], a[2], a[3])
    [] op = "UnwatchDescs" -> UnwatchDescs(a[1], a[2], a[3])
    [] op = "ConfigUnwatch" -> ConfigUnwatch(a[1], a[2])
    [] op = "ConfigUnload" -> ConfigUnload(a[1], a[2])
    [] op = "LayerListRemoveObject" -> LayerListRemoveObject(a[1], a[2])
    [] op = "AddLayers" -> AddLayers(a[1], a[2])
    [] op = "NewLayerList" -> NewLayerList(a[1], a[2])
    [] op = "NewConfig" -> NewConfig(a[1], a[2], a[3])

(***************************************************************************)
(* The state of a Config and the calls made on it.                         *)
(***************************************************************************)
VARIABLES heap, layerObjs, layers, map, watchers, watcherMap, paused, pending,
          resolved, calls, last, steps

vars == <<heap, layerObjs, layers, map, watchers, watcherMap, paused, pending,
          resolved, calls, last, steps>>

MaxSteps == 2

Keys == {<<"foo">>, <<"foo", "bar">>, <<"baz">>}
Values ==
  {S("1"), A(<<KV("0", S("1"))>>), O(<<KV("bar", S("1"))>>), O(<<KV("baz", S("1"))>>)}
MergeData == {O(<<KV("foo", O(<<KV("bar", S("2"))>>))>>), O(<<KV("baz", S("1"))>>)}
Filters == {<<>>, <<"foo">>, <<"foo", "bar">>, <<"baz">>}
NoData == O(<<>>)
FooData == O(<<KV("foo", O(<<KV("bar", S("1")), KV("baz", S("2"))>>))>>)

\* foo.bar and baz are read-only
SchemaRO ==
  JObject(FALSE, <<JKey("foo", JObject(FALSE, <<JKey("bar", JAny(TRUE))>>)),
                   JKey("baz", JAny(TRUE))>>)
\* baz is a number
SchemaNumber == JObject(FALSE, <<JKey("baz", JNumber(FALSE))>>)
\* baz is read-only
SchemaBazRO == JObject(FALSE, <<JKey("baz", JAny(TRUE))>>)

\* the options a Config is constructed with, and what its resolve() returns
Setup(schema, data, specs, res) ==
  [schema |-> schema, data |-> data, specs |-> specs, res |-> res]
Setups ==
  { Setup(NoSchema, NoData, <<>>, <<Base>>),
    Setup(NoSchema, FooData, <<LayerSpec("L1")>>, <<Base>>),
    Setup(NoSchema, NoData, <<LayerSpec("L1")>>, <<Base, "L1">>),
    Setup(SchemaRO, FooData, <<LayerSpec("L1")>>, <<Base>>),
    Setup(SchemaNumber, NoData,
          <<[LayerSpec("L1") EXCEPT !.has = {"schema"}, !.schema = SchemaBazRO]>>,
          <<Base>>) }

\* the arguments of config.layers.add()
LayerSpecs ==
  { LayerSpec("L1"),
    [LayerSpec("L1") EXCEPT !.has = {"readonly"}, !.readonly = TRUE,
                            !.file = O(<<KV("foo", S("1"))>>)],
    [LayerSpec("L2") EXCEPT !.has = {"order"}, !.order = 1] }

World ==
  [h |-> heap, ev |-> <<>>, L |-> layerObjs, layers |-> layers, map |-> map,
   watchers |-> watchers, watcherMap |-> watcherMap, paused |-> paused,
   pending |-> pending, calls |-> <<>>, todo |-> 0]

Commit(X) ==
  /\ heap' = X.h
  /\ layerObjs' = X.L
  /\ layers' = X.layers
  /\ map' = X.map
  /\ watchers' = X.watchers
  /\ watcherMap' = X.watcherMap
  /\ paused' = X.paused
  /\ pending' = X.pending
  /\ calls' = X.calls
  /\ resolved' = resolved
  /\ steps' = steps + 1

\* the latest call: its arguments, the error it threw ("none" if it returned),
\* what it returned and what get(key, undefined, id) returned just before it
Op(op, key, val, id, hd, f, oid, threw, ret, old) ==
  [op |-> op, key |-> key, val |-> val, id |-> id, hd |-> hd, f |-> f, oid |-> oid,
   threw |-> threw, ret |-> ret, old |-> old]
NoOp == Op("new", <<>>, Undefined, NoId, "", <<>>, 0, "none", FALSE, Undefined)

InitWith(schema, data, specs, res) ==
  \E X \in {Run("NewConfig", <<schema, data, specs>>)} :
     /\ heap = X.h
     /\ layerObjs = X.L
     /\ layers = X.layers
     /\ map = X.map
     /\ watchers = X.watchers
     /\ watcherMap = X.watcherMap
     /\ paused = 0
     /\ pending = <<>>
     /\ calls = <<>>
     /\ resolved = res
     /\ last = NoOp
     /\ steps = 0

Init == \E c \in Setups : InitWith(c.schema, c.data, c.specs, c.res)

\* config.set(key, value, id)
Set(key, pv, id) ==
  \E R \in {Run("ConfigSet", <<World, key, pv, id, resolved>>)},
     old \in {Run("ConfigGet", <<World, key, id>>)} :
     /\ Commit(R.X)
     /\ last' = Op("set", key, pv, id, "", <<>>, 0, R.threw, FALSE, old)

\* config.delete(key, id)
Delete(key, id) ==
  \E R \in {Run("ConfigDelete", <<World, key, id>>)},
     old \in {Run("ConfigGet", <<World, key, id>>)} :
     /\ Commit(R.X)
     /\ last' = Op("delete", key, Undefined, id, "", <<>>, 0, R.threw, R.deleted, old)

\* config.merge(data, id)
Merge(pv, id) ==
  \E R \in {Run("ConfigMerge", <<World, pv, id>>)} :
     /\ Commit(R.X)
     /\ last' = Op("merge", <<>>, pv, id, "", <<>>, 0, R.threw, FALSE, Undefined)

\* config.watch(filter, handler)
Watch(filter, hd) ==
  \E X \in {Run("ConfigWatch", <<World, filter, hd>>)} :
     /\ Commit(X)
     /\ last' = Op("watch", <<>>, Undefined, NoId, hd, filter, 0, "none", FALSE, Undefined)

\* config.unwatch(handler)
Unwatch(hd) ==
  \E X \in {Run("ConfigUnwatch", <<World, hd>>)} :
     /\ Commit(X)
     /\ last' = Op("unwatch", <<>>, Undefined, NoId, hd, <<>>, 0, "none", FALSE, Undefined)

\* config.layers.add({ id, ... })
AddLayer(spec) ==
  \E X \in {Run("LayerListAdd", <<World, watchers, spec>>)} :
     /\ Commit(X)
     /\ last' = Op("add", <<>>, Undefined, spec.id, "", <<>>, Len(layerObjs) + 1, "none",
                  FALSE, Undefined)

\* config.layers.add(layer) with a Layer the program holds
AddInstance(oid) ==
  /\ oid \in 1..Len(layerObjs)
  /\ \E X \in {Run("LayerListAddInstance", <<World, watchers, oid>>)} :
        /\ Commit(X)
        /\ last' = Op("addInstance", <<>>, Undefined, layerObjs[oid].id, "", <<>>, oid,
                     "none", FALSE, Undefined)

\* config.layers.remove(layer) with a Layer the program holds
RemoveObject(oid) ==
  /\ oid \in 1..Len(layerObjs)
  /\ \E X \in {Run("LayerListRemoveObject", <<World, oid>>)} :
        /\ Commit(X)
        /\ last' = Op("removeObject", <<>>, Undefined, layerObjs[oid].id, "", <<>>, oid,
                     "none", \E i \in 1..Len(layers) : layers[i] = oid, Undefined)

\* config.unload(id)
Unload(id) ==
  \E R \in {Run("ConfigUnload", <<World, id>>)} :
     /\ Commit(R.X)
     /\ last' = Op("unload", <<>>, Undefined, id, "", <<>>, map[id], R.threw, R.removed,
                  Undefined)

Next ==
  \/ \E key \in Keys, pv \in Values, id \in {NoId, "L1", "L2"} :
       steps < MaxSteps /\ Set(key, pv, id)
  \/ \E key \in Keys, id \in {NoId, "L1", "L2"} : steps < MaxSteps /\ Delete(key, id)
  \/ \E pv \in MergeData, id \in {NoId, "L1"} : steps < MaxSteps /\ Merge(pv, id)
  \/ \E filter \in Filters, hd \in Handlers : steps < MaxSteps /\ Watch(filter, hd)
  \/ \E hd \in Handlers : steps < MaxSteps /\ Unwatch(hd)
  \/ \E spec \in LayerSpecs : steps < MaxSteps /\ AddLayer(spec)
  \/ \E oid \in 2..3 : steps < MaxSteps /\ AddInstance(oid)
  \/ \E oid \in 2..3 : steps < MaxSteps /\ RemoveObject(oid)
  \/ \E id \in {Base, "L1"} : steps < MaxSteps /\ Unload(id)

Spec == Init /\ [][Next]_vars

(***************************************************************************)
(* Nodes used directly: new Node(value), assignments and deletes through   *)
(* the proxy, the array methods, and Node.watch, Node.unwatch, Node.pause  *)
(* and Node.resume.  The heap holds the nodes; calls holds the listeners   *)
(* the latest call invoked, lay naming the node a listener was given to.   *)
(***************************************************************************)
MaxNodeSteps == 3

\* the values a Node is made of
NodeValues ==
  { O(<<>>),
    O(<<KV("baz", A(<<KV("0", S("1"))>>))>>),
    O(<<KV("foo", O(<<KV("bar", S("1"))>>)), KV("baz", A(<<>>))>>) }

\* the values assigned and the items pushed: scalars, objects and arrays
Assigned ==
  {S("1"), O(<<KV("bar", S("1"))>>), O(<<KV("bar", O(<<>>))>>), A(<<KV("0", S("1"))>>)}
ItemLists ==
  {<<>>, <<KV("0", S("2"))>>, <<KV("0", O(<<KV("bar", S("1"))>>))>>, <<KV("0", A(<<>>))>>}
Props == {"foo", "0"}

\* a listener function that is given to node n only
NodeListener(n, hd) == Listener(n, Desc(hd, <<>>), 0)

\* the Node.watch calls made before the first step: none, a global listener
\* on the root, a global listener on the root and on each of its children,
\* a listener on the root with the filter foo
NodeWatchers == {"none", "root", "all", "filtered"}

RECURSIVE WatchEach(_, _, _)
WatchEach(M, ns, hd) ==
  IF Len(ns) = 0 THEN M
  ELSE WatchEach(NodeWatch(M, Head(ns), <<>>, NodeListener(Head(ns), hd)), Tail(ns), hd)

NewWatchedNode(pv, w) ==
  LET M == Run("NewNode", <<[h |-> <<>>, ev |-> <<>>], pv, 0>>)
  IN IF w = "root" THEN NodeWatch(M, 1, <<>>, NodeListener(1, "h1"))
     ELSE IF w = "all" THEN WatchEach(M, AsTuple([i \in 1..Len(M.h) |-> i]), "h1")
     ELSE IF w = "filtered" THEN NodeWatch(M, 1, <<"foo">>, NodeListener(1, "h1"))
     ELSE M

InitNode ==
  \E pv \in NodeValues, w \in NodeWatchers :
    \E M \in {NewWatchedNode(pv, w)} :
       /\ heap = M.h
       /\ layerObjs = <<>>
       /\ layers = <<>>
       /\ map = [id \in LayerIds |-> 0]
       /\ watchers = <<>>
       /\ watcherMap = [hd \in Handlers |-> <<>>]
       /\ paused = 0
       /\ pending = <<>>
       /\ calls = <<>>
       /\ resolved = <<Base>>
       /\ last = NoOp
       /\ steps = 0

CommitNode(M) ==
  /\ heap' = M.h
  /\ calls' = AsTuple([i \in 1..Len(M.ev) |->
                 [hd |-> M.ev[i].hd, f |-> M.ev[i].f, lay |-> M.ev[i].lay, todo |-> 0]])
  /\ steps' = steps + 1
  /\ UNCHANGED <<layerObjs, layers, map, watchers, watcherMap, paused, pending, resolved>>

NodeMachine == [h |-> heap, ev |-> <<>>]

\* n[p] = v
AssignProp(n, p, v) ==
  /\ n \in 1..Len(heap)
  /\ heap[n].arr <=> p \in IndexKeys
  /\ \E M \in {Run("ProxySet", <<NodeMachine, n, p, PlainVal(v)>>)} :
        /\ CommitNode(M)
        /\ last' = Op("assign", <<p>>, v, NoId, "", <<>>, n, "none", FALSE, Undefined)

\* delete n[p]
DeleteProp(n, p) ==
  /\ n \in 1..Len(heap)
  /\ \E M \in {Run("ProxyDelete", <<NodeMachine, n, p>>)} :
        /\ CommitNode(M)
        /\ last' = Op("deleteProp", <<p>>, Undefined, NoId, "", <<>>, n, "none", FALSE,
                     Undefined)

\* n.push(...items), n.unshift(...items), n.pop(), n.shift()
CallArrayMethod(n, prop, items) ==
  /\ n \in 1..Len(heap)
  /\ heap[n].arr
  /\ prop \in {"pop", "shift"} => Len(items) = 0
  /\ \E M \in {Run("ArrayMethod", <<NodeMachine, n, prop, items>>)} :
        /\ CommitNode(M)
        /\ last' = Op(prop, <<>>, A(items), NoId, "", <<>>, n, "none", FALSE, Undefined)

\* n.splice(0, n.length, ...items)
SpliceItems(n, items) ==
  /\ n \in 1..Len(heap)
  /\ heap[n].arr
  /\ \E M \in {Run("SpliceAll", <<NodeMachine, n, items>>)} :
        /\ CommitNode(M)
        /\ last' = Op("splice", <<>>, A(items), NoId, "", <<>>, n, "none", FALSE, Undefined)

\* Node.watch(n, filter, listener)
WatchNode(n, filter, hd) ==
  /\ n \in 1..Len(heap)
  /\ \E M \in {NodeWatch(NodeMachine, n, filter, NodeListener(n, hd))} :
        /\ CommitNode(M)
        /\ last' = Op("watchNode", <<>>, Undefined, NoId, hd, filter, n, "none", FALSE,
                     Undefined)

\* Node.unwatch(n, listener)
UnwatchNode(n, hd) ==
  /\ n \in 1..Len(heap)
  /\ \E M \in {NodeUnwatch(NodeMachine, n, NodeListener(n, hd))} :
        /\ CommitNode(M)
        /\ last' = Op("unwatchNode", <<>>, Undefined, NoId, hd, <<>>, n, "none", FALSE,
                     Undefined)

\* Node.pause(n)
PauseNode(n) ==
  /\ n \in 1..Len(heap)
  /\ \E M \in {pause(NodeMachine, n)} :
        /\ CommitNode(M)
        /\ last' = Op("pauseNode", <<>>, Undefined, NoId, "", <<>>, n, "none", FALSE,
                     Undefined)

\* Node.resume(n)
ResumeNode(n) ==
  /\ n \in 1..Len(heap)
  /\ \E M \in {Run("resume", <<NodeMachine, n>>)} :
        /\ CommitNode(M)
        /\ last' = Op("resumeNode", <<>>, Undefined, NoId, "", <<>>, n, "none", FALSE,
                     Undefined)

NextNode ==
  \/ \E n \in 1..3, p \in Props, v \in Assigned :
       steps < MaxNodeSteps /\ AssignProp(n, p, v)
  \/ \E n \in 1..2, p \in Props : steps < MaxNodeSteps /\ DeleteProp(n, p)
  \/ \E n \in 1..3, prop \in {"push", "unshift", "pop", "shift"}, items \in ItemLists :
       steps < MaxNodeSteps /\ CallArrayMethod(n, prop, items)
  \/ \E n \in 1..3, items \in ItemLists : steps < MaxNodeSteps /\ SpliceItems(n, items)
  \/ \E n \in 1..2, filter \in {<<>>, <<"foo">>} :
       steps < MaxNodeSteps /\ WatchNode(n, filter, "h2")
  \/ \E n \in 1..2 : steps < MaxNodeSteps /\ UnwatchNode(n, "h1")
  \/ \E n \in 1..3 : steps < MaxNodeSteps /\ PauseNode(n)
  \/ \E n \in 1..3 : steps < MaxNodeSteps /\ ResumeNode(n)

SpecNode == InitNode /\ [][NextNode]_vars

(***************************************************************************)
(* Paused nodes: assignments, deletes and pushes on nodes that are paused  *)
(* and resumed                                                             *)
(***************************************************************************)
MaxPauseSteps == 3

NextPause ==
  \/ \E n \in 1..2, p \in Props, v \in {S("1"), O(<<KV("bar", O(<<>>))>>)} :
       steps < MaxPauseSteps /\ AssignProp(n, p, v)
  \/ steps < MaxPauseSteps /\ DeleteProp(1, "foo")
  \/ \E n \in 2..3, items \in {<<KV("0", S("2"))>>, <<KV("0", O(<<KV("bar", S("1"))>>))>>} :
       steps < MaxPauseSteps /\ CallArrayMethod(n, "push", items)
  \/ \E n \in 1..2 : steps < MaxPauseSteps /\ PauseNode(n)
  \/ \E n \in 1..2 : steps < MaxPauseSteps /\ ResumeNode(n)

SpecPause == InitNode /\ [][NextPause]_vars

(***************************************************************************)
(* Splices: node.splice(start, deleteCount, ...items) on the arrays of a   *)
(* watched node, with scalar and object elements                           *)
(***************************************************************************)
MaxSpliceSteps == 2

SpliceValues ==
  { O(<<KV("baz", A(<<KV("0", S("1")), KV("1", S("2"))>>))>>),
    O(<<KV("baz", A(<<KV("0", O(<<KV("bar", S("1"))>>))>>))>>),
    O(<<KV("baz", A(<<>>))>>),
    A(<<KV("0", O(<<KV("bar", S("1"))>>))>>) }
SpliceLists == {<<>>, <<KV("0", S("1"))>>, <<KV("0", O(<<KV("bar", S("1"))>>))>>}

InitSplice ==
  \E pv \in SpliceValues, w \in NodeWatchers :
    \E M \in {NewWatchedNode(pv, w)} :
       /\ heap = M.h
       /\ layerObjs = <<>>
       /\ layers = <<>>
       /\ map = [id \in LayerIds |-> 0]
       /\ watchers = <<>>
       /\ watcherMap = [hd \in Handlers |-> <<>>]
       /\ paused = 0
       /\ pending = <<>>
       /\ calls = <<>>
       /\ resolved = <<Base>>
       /\ last = NoOp
       /\ steps = 0

\* the nodes whose proxy is read from the root: the root, and the values of
\* the properties that hold a proxy
RECURSIVE HeldFrom(_, _, _)
HeldFrom(h, ns, k) ==
  IF k = 0 THEN ns
  ELSE HeldFrom(h, ns \cup UNION {{h[m].props[i].n :
                                         i \in {j \in 1..Len(h[m].props) :
                                                  h[m].props[j].t = "n"}} : m \in ns},
                k - 1)
HeldProxies(h) == HeldFrom(h, {1}, Len(h))

\* n.splice(start, count, ...items), or n.splice(start) when hasCount is FALSE
Splice(n, start, hasCount, count, items) ==
  /\ n \in 1..Len(heap)
  /\ n \in HeldProxies(heap)
  /\ heap[n].arr
  /\ \E M \in {Run("SpliceNode", <<NodeMachine, n, start, hasCount, count, items>>)} :
        /\ CommitNode(M)
        /\ last' = Op("spliceAt", <<ToString(start), ToString(count)>>, A(items), NoId, "",
                     <<>>, n, "none", hasCount,
                     Undefined)

NextSplice ==
  \/ \E n \in 1..3, start \in 0..2, hasCount \in BOOLEAN, count \in 0..2, items \in SpliceLists :
       steps < MaxSpliceSteps /\ Splice(n, start, hasCount, count, items)
  \/ \E items \in SpliceLists : steps < MaxSpliceSteps /\ CallArrayMethod(2, "push", items)
  \/ \E n \in 1..2 : steps < MaxSpliceSteps /\ WatchNode(n, <<>>, "h2")

SpecSplice == InitSplice /\ [][NextSplice]_vars
(***************************************************************************)
(* Merges: Node.merge(n, src) into watched nodes                           *)
(***************************************************************************)
MaxMergeSteps == 2

MergeSources ==
  { O(<<KV("foo", S("2")), KV("baz", A(<<KV("0", S("2"))>>))>>),
    O(<<KV("foo", O(<<KV("bar", S("2")), KV("qux", S("1"))>>))>>),
    O(<<KV("foo", A(<<KV("0", S("1"))>>))>>),
    O(<<KV("baz", A(<<KV("0", O(<<KV("bar", S("1"))>>))>>)), KV("qux", S("1"))>>),
    A(<<>>) }

\* Node.merge(n, src) for a node n that is not an array
MergeNode(n, src) ==
  /\ n \in HeldProxies(heap)
  /\ ~heap[n].arr
  /\ IF src.kind # "o"
     THEN /\ last' = Op("mergeNode", <<>>, src, NoId, "", <<>>, n, "TypeError", FALSE,
                       Undefined)
          /\ CommitNode(NodeMachine)
     ELSE \E M \in {Run("NodeMerge", <<NodeMachine, n, src>>)} :
            /\ CommitNode(M)
            /\ last' = Op("mergeNode", <<>>, src, NoId, "", <<>>, n, "none", FALSE,
                         Undefined)

NextMerge ==
  \/ \E n \in 1..3, src \in MergeSources : steps < MaxMergeSteps /\ MergeNode(n, src)
  \/ \E v \in {S("1"), O(<<KV("bar", S("1"))>>)} :
       steps < MaxMergeSteps /\ AssignProp(1, "foo", v)
  \/ \E n \in 1..2 : steps < MaxMergeSteps /\ WatchNode(n, <<>>, "h2")
  \/ steps < MaxMergeSteps /\ PauseNode(1)
  \/ steps < MaxMergeSteps /\ ResumeNode(1)

SpecMerge == InitNode /\ [][NextMerge]_vars
(***************************************************************************)
(* Array values: config.push, config.unshift, config.pop and config.shift  *)
(* on a key that holds an array in one layer or in two                     *)
(***************************************************************************)
MaxArraySteps == 2

ArrayData ==
  { O(<<KV("foo", A(<<KV("0", S("1")), KV("1", S("2"))>>))>>),
    O(<<KV("foo", A(<<KV("0", S("1")), KV("1", S("1"))>>))>>),
    O(<<KV("foo", A(<<KV("0", O(<<KV("bar", S("1"))>>))>>))>>),
    O(<<KV("foo", A(<<KV("0", S("1")), KV("1", Null)>>))>>),
    O(<<KV("foo", A(<<>>))>>) }
ArraySetups ==
  {Setup(NoSchema, d, <<>>, <<Base>>) : d \in ArrayData}
  \cup { Setup(NoSchema, O(<<KV("foo", A(<<KV("0", S("1"))>>))>>),
               <<[LayerSpec("L1") EXCEPT !.file = O(<<KV("foo", A(<<KV("0", S("3"))>>))>>)]>>,
               <<Base>>) }
Pushed == {S("1"), S("3"), O(<<KV("bar", S("1"))>>), A(<<KV("0", S("4")), KV("1", S("1"))>>)}

InitArray == \E c \in ArraySetups : InitWith(c.schema, c.data, c.specs, c.res)

\* config.push(key, value, id) and config.unshift(key, value, id)
Push(action, key, pv, id) ==
  \E R \in {Run("ConfigMutate", <<World, key, pv, id, resolved, action>>)},
     old \in {Run("ConfigGet", <<World, key, NoId>>)} :
     /\ Commit(R.X)
     /\ last' = Op(action, key, pv, id, "", <<>>, 0, R.threw, FALSE, old)

\* config.pop(key, id) and config.shift(key, id); val is the value returned
Pop(action, key, id) ==
  \E R \in {Run("ConfigMutate", <<World, key, Undefined, id, resolved, action>>)},
     old \in {Run("ConfigGet", <<World, key, NoId>>)} :
     /\ Commit(R.X)
     /\ last' = Op(action, key, R.result, id, "", <<>>, 0, R.threw, FALSE, old)

NextArray ==
  \/ \E pv \in Pushed, id \in {NoId, "L1"} :
       steps < MaxArraySteps /\ Push("push", <<"foo">>, pv, id)
  \/ \E pv \in Pushed, id \in {NoId, "L1"} :
       steps < MaxArraySteps /\ Push("unshift", <<"foo">>, pv, id)
  \/ \E id \in {NoId, "L1"} : steps < MaxArraySteps /\ Pop("pop", <<"foo">>, id)
  \/ \E id \in {NoId, "L1"} : steps < MaxArraySteps /\ Pop("shift", <<"foo">>, id)
  \/ \E pv \in {A(<<KV("0", S("2")), KV("1", S("2"))>>), S("1")} :
       steps < MaxArraySteps /\ Set(<<"foo">>, pv, NoId)

SpecArray == InitArray /\ [][NextArray]_vars
\* config.layers.remove(id)
RemoveLayer(id) ==
  \E R \in {Run("LayerListRemove", <<World, id>>)} :
     /\ Commit(R.X)
     /\ last' = Op("remove", <<>>, Undefined, id, "", <<>>, map[id], R.threw, R.removed,
                  Undefined)

\* config.load(file, opts)
Load(spec) ==
  \E X \in {Run("ConfigLoad", <<World, spec, resolved>>)} :
     /\ Commit(X)
     /\ last' = Op("load", <<>>, spec.file, spec.id, "", <<>>, 0, "none", FALSE, Undefined)

\* config.layers.query(ids, reverse); last.key holds the ids asked for,
\* last.id is NoId for a query of all layers, last.f the ids of the layers
\* the iterator yields
QueryLayers(q, reverse) ==
  \E R \in {LayerListQuery(World, q, reverse)} :
     /\ UNCHANGED <<heap, layerObjs, layers, map, watchers, watcherMap, paused, pending,
                    resolved>>
     /\ calls' = <<>>
     /\ steps' = steps + 1
     /\ last' = Op("query", q.ids, Undefined, IF q.all THEN NoId ELSE "ids", "",
                  AsTuple([i \in 1..Len(R.out) |-> IF R.out[i] = 0 THEN "undefined"
                                           ELSE layerObjs[R.out[i]].id]),
                  0, R.threw, reverse, Undefined)

(***************************************************************************)
(* Self-assignment: a Node, watched or not, one of whose nodes is assigned *)
(* to a property of itself, by its proxy or by the raw object behind it.   *)
(* A call that ends in a stack overflow is the last one followed.          *)
(***************************************************************************)
MaxSelfSteps == 2

NoOverflow == \A i \in 1..Len(heap) : ~SeqHas(heap[i].parents, i)

\* n[p] = n, and n[p] = raw where n is new Node(raw)
AssignSelf(n, p, raw) ==
  /\ n \in 1..Len(heap)
  /\ n \in HeldProxies(heap)
  /\ heap[n].arr <=> p \in IndexKeys
  /\ \E R \in {SetTrap(NodeMachine, n, p, IF raw THEN TargetVal(n) ELSE NodeVal(n))} :
        /\ CommitNode(R.M)
        /\ last' = Op("assignSelf", <<p>>, Undefined, NoId, "", <<>>, n, R.threw, raw,
                     Undefined)

NextSelf ==
  \/ \E n \in 1..3, p \in Props, raw \in BOOLEAN :
       steps < MaxSelfSteps /\ NoOverflow /\ AssignSelf(n, p, raw)
  \/ \E n \in 1..3, p \in Props, v \in Assigned :
       steps < MaxSelfSteps /\ NoOverflow /\ AssignProp(n, p, v)
  \/ \E n \in 1..2 : steps < MaxSelfSteps /\ NoOverflow /\ WatchNode(n, <<>>, "h2")

SpecSelf == InitNode /\ [][NextSelf]_vars

(***************************************************************************)
(* Two Nodes made of the same value, each of them then built up by its own *)
(* assignments, deletions and array calls.  The roots are nodes 1 and 2.   *)
(***************************************************************************)
MaxHashSteps == 3

HashValues == {O(<<>>), O(<<KV("a", S("1")), KV("b", S("1"))>>), A(<<>>)}
HashProps == {"a", "b", "0"}
HashAssigned == {S("1"), S("2"), O(<<KV("a", S("1"))>>), O(<<KV("b", S("1"))>>)}
HashItems == {<<>>, <<KV("0", S("1"))>>, <<KV("0", S("2"))>>}

InitHash ==
  \E pv \in HashValues :
    \E M \in {Run("NewNode", <<Run("NewNode", <<[h |-> <<>>, ev |-> <<>>], pv, 0>>), pv, 0>>)} :
       /\ heap = M.h
       /\ layerObjs = <<>>
       /\ layers = <<>>
       /\ map = [id \in LayerIds |-> 0]
       /\ watchers = <<>>
       /\ watcherMap = [hd \in Handlers |-> <<>>]
       /\ paused = 0
       /\ pending = <<>>
       /\ calls = <<>>
       /\ resolved = <<Base>>
       /\ last = NoOp
       /\ steps = 0

NextHash ==
  \/ \E n \in 1..2, p \in HashProps, v \in HashAssigned :
       steps < MaxHashSteps /\ AssignProp(n, p, v)
  \/ \E n \in 1..2, p \in HashProps : steps < MaxHashSteps /\ DeleteProp(n, p)
  \/ \E n \in 1..2, prop \in {"push", "unshift", "pop", "shift"}, items \in HashItems :
       steps < MaxHashSteps /\ CallArrayMethod(n, prop, items)

SpecHash == InitHash /\ [][NextHash]_vars

(***************************************************************************)
(* A node held by several parents: node 2, the property c of the root 1,   *)
(* is also assigned to the property c of the root 3, of its child 4, or of *)
(* both; the nodes are watched by global listeners.                        *)
(***************************************************************************)
MaxSharedSteps == 2

SharedValues == {O(<<>>), O(<<KV("a", S("1"))>>), A(<<KV("0", S("1"))>>)}
SharedHolders == {<<4>>, <<3>>, <<3, 4>>}
SharedWatched == {<<1, 3, 4>>, <<1, 2, 3, 4>>, <<3>>}
SharedProps == {"a", "0", "c"}
SharedAssigned == {S("1"), S("2"), O(<<KV("a", S("1"))>>)}

\* p.c = n for each p of ps, n being a proxy the caller holds
RECURSIVE HoldIn(_, _, _)
HoldIn(M, ps, n) ==
  IF Len(ps) = 0 THEN M
  ELSE HoldIn(Run("ProxySet", <<M, Head(ps), "c", NodeVal(n)>>), Tail(ps), n)

InitShared ==
  \E cv \in SharedValues, ps \in SharedHolders, ws \in SharedWatched :
    \E M \in {WatchEach(HoldIn(Run("NewNode", <<Run("NewNode", <<[h |-> <<>>, ev |-> <<>>],
                                    O(<<KV("c", cv)>>), 0>>),
                                    O(<<KV("in", O(<<>>))>>), 0>>), ps, 2), ws, "h1")} :
       /\ heap = M.h
       /\ layerObjs = <<>>
       /\ layers = <<>>
       /\ map = [id \in LayerIds |-> 0]
       /\ watchers = <<>>
       /\ watcherMap = [hd \in Handlers |-> <<>>]
       /\ paused = 0
       /\ pending = <<>>
       /\ calls = <<>>
       /\ resolved = <<Base>>
       /\ last = NoOp
       /\ steps = 0

\* n[p] = c, c being a proxy the caller holds
AssignNode(n, p, c) ==
  /\ n \in 1..Len(heap)
  /\ c \in 1..Len(heap)
  /\ ~heap[n].arr
  /\ \E M \in {Run("ProxySet", <<NodeMachine, n, p, NodeVal(c)>>)} :
        /\ CommitNode(M)
        /\ last' = Op("assignNode", <<p>>, Undefined, NoId, "", <<>>, n, "none", FALSE,
                     Undefined)

NextShared ==
  \/ \E n \in 1..4, p \in SharedProps, v \in SharedAssigned :
       steps < MaxSharedSteps /\ AssignProp(n, p, v)
  \/ \E n \in 1..4, p \in SharedProps : steps < MaxSharedSteps /\ DeleteProp(n, p)
  \/ \E n \in 1..4, prop \in {"push", "unshift", "pop", "shift"}, items \in HashItems :
       steps < MaxSharedSteps /\ CallArrayMethod(n, prop, items)
  \/ \E n \in {1, 3, 4}, p \in {"a", "c"} :
       steps < MaxSharedSteps /\ AssignNode(n, p, 2)

SpecShared == InitShared /\ [][NextShared]_vars

(***************************************************************************)
(* Reloads: a schemaless Config whose layer L1 was loaded from a file, with *)
(* handlers watching, and the file loaded again into L1                     *)
(***************************************************************************)
MaxReloadSteps == 3

FileLayer(file) == [LayerSpec("L1") EXCEPT !.file = file]
\* {}, { foo: 1 }, { foo: { bar: 1 } }, { foo: { bar: 2 } }, { foo: { baz: 1 } }
ReloadFiles ==
  { NoFile, O(<<KV("foo", S("1"))>>),
    O(<<KV("foo", O(<<KV("bar", S("1"))>>))>>), O(<<KV("foo", O(<<KV("bar", S("2"))>>))>>),
    O(<<KV("foo", O(<<KV("baz", S("1"))>>))>>) }
ReloadFilters == {<<>>, <<"foo">>, <<"foo", "bar">>}

InitReload == \E file \in ReloadFiles : InitWith(NoSchema, NoData, <<FileLayer(file)>>, <<Base>>)

NextReload ==
  \/ \E filter \in ReloadFilters, hd \in Handlers :
       steps < MaxReloadSteps /\ Watch(filter, hd)
  \/ \E file \in ReloadFiles : steps < MaxReloadSteps /\ Load(FileLayer(file))

SpecReload == InitReload /\ [][NextReload]_vars

(***************************************************************************)
(* Namespaces: a schemaless Config with a layer L1 of namespace 'test',    *)
(* loaded from a file that is flat, already namespaced or empty            *)
(***************************************************************************)
MaxNsSteps == 2

Namespace == "test"
NsLayer(file) ==
  [LayerSpec("L1") EXCEPT !.has = {"namespace"}, !.namespace = Namespace, !.file = file]
\* the contents of the file: {}, { foo: 1 }, { foo: { bar: 1 } } and
\* { test: { foo: 1 } }
FlatFiles == {NoFile, O(<<KV("foo", S("1"))>>), O(<<KV("foo", O(<<KV("bar", S("1"))>>))>>)}
Wrap(file) == O(<<KV(Namespace, file)>>)
NsFiles == FlatFiles \cup {Wrap(O(<<KV("foo", S("1"))>>))}
NsKeys == {<<"test", "foo">>, <<"test", "foo", "bar">>, <<"test">>, <<"foo">>}
NsValues == {S("2"), O(<<KV("bar", S("1"))>>), O(<<KV("baz", S("2"))>>), A(<<KV("0", S("1"))>>)}

InitNamespace == \E file \in NsFiles : InitWith(NoSchema, NoData, <<NsLayer(file)>>, <<Base>>)

\* config.has(key, id)
Has(key, id) ==
  \E R \in {ConfigHas(World, key, id)}, old \in {Run("ConfigGet", <<World, key, id>>)} :
     /\ UNCHANGED <<heap, layerObjs, layers, map, watchers, watcherMap, paused, pending,
                    resolved>>
     /\ calls' = <<>>
     /\ steps' = steps + 1
     /\ last' = Op("has", key, Undefined, id, "", <<>>, 0, R.threw, R.has, old)

NextNamespace ==
  \/ \E key \in NsKeys, pv \in NsValues : steps < MaxNsSteps /\ Set(key, pv, "L1")
  \/ \E key \in NsKeys : steps < MaxNsSteps /\ Delete(key, "L1")
  \/ \E key \in NsKeys : steps < MaxNsSteps /\ Has(key, "L1")
  \/ \E file \in NsFiles : steps < MaxNsSteps /\ Load(NsLayer(file))

SpecNamespace == InitNamespace /\ [][NextNamespace]_vars

(***************************************************************************)
(* Watching a namespace: handlers registered with Config.watch on a Config *)
(* with a layer L1 of namespace 'test', then sets and deletes in L1        *)
(***************************************************************************)
MaxNsWatchSteps == 3

NsFilters == {<<>>, <<"test", "foo">>, <<"foo">>}

NextNsWatch ==
  \/ \E filter \in NsFilters, hd \in Handlers : steps < MaxNsWatchSteps /\ Watch(filter, hd)
  \/ \E key \in NsKeys, pv \in NsValues : steps < MaxNsWatchSteps /\ Set(key, pv, "L1")
  \/ \E key \in NsKeys : steps < MaxNsWatchSteps /\ Delete(key, "L1")

SpecNsWatch == InitNamespace /\ [][NextNsWatch]_vars

(***************************************************************************)
(* The layer list: layers added, loaded, replaced and removed, by id and   *)
(* by reference, on a schemaless Config                                    *)
(***************************************************************************)
MaxLayerSteps == 3

LayerSetups ==
  { Setup(NoSchema, NoData, <<>>, <<Base>>),
    Setup(NoSchema, FooData, <<LayerSpec("L1")>>, <<Base>>) }

ListSpecs ==
  { LayerSpec("L1"),
    [LayerSpec("L1") EXCEPT !.has = {"order"}, !.order = 2],
    [LayerSpec("L2") EXCEPT !.has = {"order"}, !.order = 1],
    [LayerSpec("L2") EXCEPT !.has = {"static"}, !.static = TRUE] }

\* load(file) and load(file, { id: 'L1' })
LoadSpecs ==
  { [LayerSpec(NoId) EXCEPT !.file = O(<<KV("foo", S("1"))>>)],
    [LayerSpec("L1") EXCEPT !.file = O(<<KV("foo", O(<<KV("bar", S("1"))>>))>>)] }

\* query(), query('L1'), query([]), query(['L2', 'L1']), query([Base, 'L2'])
Queries ==
  { AllLayers, TheseLayers(<<"L1">>), TheseLayers(<<>>), TheseLayers(<<"L2", "L1">>),
    TheseLayers(<<Base, "L2">>) }

InitLayers == \E c \in LayerSetups : InitWith(c.schema, c.data, c.specs, c.res)

NextLayers ==
  \/ \E spec \in ListSpecs : steps < MaxLayerSteps /\ AddLayer(spec)
  \/ \E oid \in 1..3 : steps < MaxLayerSteps /\ AddInstance(oid)
  \/ \E oid \in 1..3 : steps < MaxLayerSteps /\ RemoveObject(oid)
  \/ \E id \in LayerIds : steps < MaxLayerSteps /\ RemoveLayer(id)
  \/ \E id \in LayerIds : steps < MaxLayerSteps /\ Unload(id)
  \/ \E spec \in LoadSpecs : steps < MaxLayerSteps /\ Load(spec)
  \/ \E id \in {NoId, "L2"} : steps < MaxLayerSteps /\ Set(<<"foo">>, S("2"), id)
  \/ \E hd \in Handlers : steps < MaxLayerSteps /\ Watch(<<"foo">>, hd)
  \/ \E q \in Queries, reverse \in BOOLEAN :
       steps < MaxLayerSteps /\ QueryLayers(q, reverse)

SpecLayers == InitLayers /\ [][NextLayers]_vars

(***************************************************************************)
(* Reads and writes of data: set, delete and merge on a schemaless Config  *)
(* with the Base layer alone or with a layer L1 of order 0 above it.       *)
(***************************************************************************)
MaxDataSteps == 3

ScalarData == O(<<KV("foo", S("2"))>>)

DataSetups ==
  { Setup(NoSchema, NoData, <<>>, <<Base>>),
    Setup(NoSchema, NoData, <<LayerSpec("L1")>>, <<Base>>),
    Setup(NoSchema, ScalarData, <<LayerSpec("L1")>>, <<Base>>) }

InitData == \E c \in DataSetups : InitWith(c.schema, c.data, c.specs, c.res)

NextData ==
  \/ \E key \in Keys, pv \in Values, id \in {NoId, "L1"} :
       steps < MaxDataSteps /\ Set(key, pv, id)
  \/ \E key \in Keys, id \in {NoId, "L1"} : steps < MaxDataSteps /\ Delete(key, id)
  \/ \E pv \in MergeData, id \in {NoId, "L1"} : steps < MaxDataSteps /\ Merge(pv, id)

SpecData == InitData /\ [][NextData]_vars

(***************************************************************************)
(* Deletions in a JSON store: a schemaless Config with the Base layer only, *)
(* whose data has objects nested in objects, and keys of one to three      *)
(* segments that name each other's segments.                               *)
(***************************************************************************)
MaxStoreSteps == 2

StoreData ==
  { O(<<>>),
    O(<<KV("foo", O(<<KV("bar", S("1"))>>)), KV("bar", S("3"))>>),
    O(<<KV("foo", O(<<KV("bar", S("1")), KV("baz", S("2"))>>)), KV("bar", S("3"))>>),
    O(<<KV("foo", O(<<KV("bar", O(<<KV("bar", S("1"))>>))>>))>>),
    O(<<KV("foo", O(<<KV("bar", O(<<KV("bar", S("1")), KV("baz", S("2"))>>)),
                      KV("baz", S("2"))>>))>>) }
StoreKeys == {<<"foo">>, <<"bar">>, <<"foo", "bar">>, <<"foo", "baz">>, <<"foo", "bar", "bar">>}
StoreValues == {S("1"), O(<<KV("bar", S("1"))>>)}

InitStore == \E data \in StoreData : InitWith(NoSchema, data, <<>>, <<Base>>)

NextStore ==
  \/ \E key \in StoreKeys, pv \in StoreValues : steps < MaxStoreSteps /\ Set(key, pv, NoId)
  \/ \E key \in StoreKeys : steps < MaxStoreSteps /\ Delete(key, NoId)

SpecStore == InitStore /\ [][NextStore]_vars

(***************************************************************************)
(* Templates: Config.get step by step, on a schemaless Config with the     *)
(* Base layer only whose values are set to numbers and strings, with and   *)
(* without {{key}} references to each other and to themselves.  While a    *)
(* get is running calls holds                                              *)
(* the calls of get in progress, the innermost last: get(key) reads the    *)
(* value val of the layer and replace() scans its parts from part i on,    *)
(* with acc the text produced so far; each reference is a nested get.      *)
(* last tells how the outermost call ended.                                *)
(***************************************************************************)
MaxGetSteps == 3
\* the number of nested get calls the call stack of the engine has room for
MaxCallStack == 4

GetKeys == {"foo", "bar", "baz"}
GetValues == {S("1"), S("'x'"), S("'{{foo}}'"), S("'{{bar}}'"), S("'x{{baz}}'")}

Lit(text) == [ref |-> FALSE, text |-> text]
Ref(key) == [ref |-> TRUE, text |-> key]

\* typeof it === 'string'
IsString(pv) == pv.s \in {"'x'", "'{{foo}}'", "'{{bar}}'", "'x{{baz}}'"}

\* the text outside and the keys inside the matches of /\{\{([^}]+)\}\}/g
TemplateParts(pv) ==
  CASE pv.s = "'x'" -> <<Lit("x")>>
    [] pv.s = "'{{foo}}'" -> <<Ref("foo")>>
    [] pv.s = "'{{bar}}'" -> <<Ref("bar")>>
    [] pv.s = "'x{{baz}}'" -> <<Lit("x"), Ref("baz")>>
    [] OTHER -> <<>>

InitGet == InitWith(NoSchema, NoData, <<>>, <<Base>>)

\* a call of get(key): value = replace(layer.get(key)) is about to run
GetFrame(key) ==
  [key |-> key, val |-> Run("LayerGet", <<heap, layerObjs[layers[1]], <<key>>>>),
   i |-> 1, acc |-> ""]

\* String.replace has dealt with one part: the text is added, the scan
\* goes on behind the part
Rescan(f, text) == [f EXCEPT !.i = 1, !.acc = text]
Advance(f, text) == [f EXCEPT !.i = @ + 1, !.acc = @ \o text]

\* what the innermost call returns: the replaced string, or the value
\* that is not a string as it is
Returned(f) ==
  IF IsString(f.val) THEN [pv |-> S("'" \o f.acc \o "'"), text |-> f.acc]
  ELSE [pv |-> f.val, text |-> f.val.s]
Scanned(f) == ~IsString(f.val) \/ f.i > Len(TemplateParts(f.val))

GetOp(key, pv, threw, ret) ==
  Op("get", <<key>>, pv, NoId, "", <<>>, 0, threw, ret, Undefined)

\* config.get(key), called while no call is in progress
GetCall(key) ==
  /\ Len(calls) = 0
  /\ calls' = <<GetFrame(key)>>
  /\ last' = GetOp(key, Undefined, "none", FALSE)
  /\ steps' = steps + 1
  /\ UNCHANGED <<heap, layerObjs, layers, map, watchers, watcherMap, paused, pending, resolved>>

\* replace(): the text before the next match
GetLiteral ==
  /\ Len(calls) > 0
  /\ LET f == calls[Len(calls)]
     IN /\ ~Scanned(f)
        /\ ~TemplateParts(f.val)[f.i].ref
        /\ calls' = [calls EXCEPT ![Len(calls)] = Advance(f, TemplateParts(f.val)[f.i].text)]
  /\ UNCHANGED <<heap, layerObjs, layers, map, watchers, watcherMap, paused, pending, resolved,
                 last, steps>>

\* replace(): a match; the callback calls this.get(k), for which the call
\* stack has room or not
GetReference ==
  /\ Len(calls) > 0
  /\ LET f == calls[Len(calls)]
     IN /\ ~Scanned(f)
        /\ TemplateParts(f.val)[f.i].ref
        /\ IF Len(calls) >= MaxCallStack
           THEN /\ calls' = <<>>
                /\ last' = GetOp(calls[1].key, Undefined, "RangeError", FALSE)
           ELSE /\ calls' = Append(calls, GetFrame(TemplateParts(f.val)[f.i].text))
                /\ UNCHANGED last
  /\ UNCHANGED <<heap, layerObjs, layers, map, watchers, watcherMap, paused, pending, resolved,
                 steps>>

\* the innermost get returns: to the caller of config.get, or to the
\* callback of replace(), which throws when the value is undefined
GetReturn ==
  /\ Len(calls) > 0
  /\ LET f == calls[Len(calls)]
         r == Returned(f)
         rest == SubSeq(calls, 1, Len(calls) - 1)
     IN /\ Scanned(f)
        /\ IF Len(calls) = 1
           THEN /\ calls' = <<>>
                /\ last' = GetOp(f.key, r.pv, "none", TRUE)
           ELSE IF r.pv = Undefined
           THEN /\ calls' = <<>>
                /\ last' = GetOp(calls[1].key, Undefined, "Error", FALSE)
           ELSE /\ calls' = [rest EXCEPT ![Len(rest)] = Advance(@, r.text)]
                /\ UNCHANGED last
  /\ UNCHANGED <<heap, layerObjs, layers, map, watchers, watcherMap, paused, pending, resolved,
                 steps>>

NextGet ==
  \/ \E key \in GetKeys, pv \in GetValues :
       steps < MaxGetSteps /\ Len(calls) = 0 /\ Set(<<key>>, pv, NoId)
  \/ \E key \in GetKeys : steps < MaxGetSteps /\ GetCall(key)
  \/ GetLiteral
  \/ GetReference
  \/ GetReturn

SpecGet == InitGet /\ [][NextGet]_vars

\* get runs to its end once called: nothing else runs in between
SpecGetLive == SpecGet /\ WF_vars(GetLiteral \/ GetReference \/ GetReturn)

(***************************************************************************)
(* Watching: handlers registered with and without a filter, then changes   *)
(* made with set and delete, in a layer that exists or in a new one.       *)
(***************************************************************************)
MaxWatchSteps == 3

WatchSetups ==
  { Setup(NoSchema, NoData, <<>>, <<Base>>),
    Setup(NoSchema, FooData, <<>>, <<Base>>),
    Setup(NoSchema, NoData, <<LayerSpec("L1")>>, <<Base, "L1">>) }

WatchValues == {S("1"), O(<<KV("bar", S("1"))>>)}

InitWatch == \E c \in WatchSetups : InitWith(c.schema, c.data, c.specs, c.res)

NextWatch ==
  \/ \E filter \in Filters, hd \in Handlers : steps < MaxWatchSteps /\ Watch(filter, hd)
  \/ \E hd \in Handlers : steps < MaxWatchSteps /\ Unwatch(hd)
  \/ \E key \in Keys, pv \in WatchValues, id \in {NoId, "L2"} :
       steps < MaxWatchSteps /\ Set(key, pv, id)
  \/ \E key \in Keys, id \in {NoId, "L2"} : steps < MaxWatchSteps /\ Delete(key, id)

SpecWatch == InitWatch /\ [][NextWatch]_vars

(***************************************************************************)
(* Unwatching: one handler is registered and unregistered while the layer  *)
(* list is changed through config.layers, then values are set.             *)
(***************************************************************************)
MaxUnwatchSteps == 4

InitUnwatch == InitWith(NoSchema, NoData, <<LayerSpec("L1")>>, <<Base>>)

NextUnwatch ==
  \/ \E filter \in {<<>>, <<"foo">>} : steps < MaxUnwatchSteps /\ Watch(filter, "h1")
  \/ steps < MaxUnwatchSteps /\ Unwatch("h1")
  \/ steps < MaxUnwatchSteps /\ AddLayer(LayerSpec("L1"))
  \/ steps < MaxUnwatchSteps /\ AddInstance(2)
  \/ steps < MaxUnwatchSteps /\ RemoveObject(2)
  \/ \E pv \in WatchValues, id \in {NoId, "L1"} :
       steps < MaxUnwatchSteps /\ Set(<<"foo">>, pv, id)

SpecUnwatch == InitUnwatch /\ [][NextUnwatch]_vars

(***************************************************************************)
(* What the claims speak of.                                               *)
(***************************************************************************)
Foo == <<"foo">>

\* config.get(key) with no layer id, and layer.get(key) of one Layer object
Get(key) == Run("ConfigGet", <<World, key, NoId>>)
\* the same after the step
WorldAfter ==
  [h |-> heap', ev |-> <<>>, L |-> layerObjs', layers |-> layers', map |-> map',
   watchers |-> watchers', watcherMap |-> watcherMap', paused |-> paused',
   pending |-> pending', calls |-> <<>>, todo |-> 0]
GetAfter(key) == Run("ConfigGet", <<WorldAfter, key, NoId>>)
LayerValue(oid, key) == Run("LayerGet", <<heap, layerObjs[oid], key>>)

NonObject(pv) == pv # Undefined /\ pv.kind # "o"

\* the layer list is [Base (order -Infinity), L1 (order 0)] and both layers
\* hold a scalar or an array at foo
C1_Pre ==
  /\ Len(layers) = 2
  /\ layerObjs[layers[1]].id = Base
  /\ layerObjs[layers[1]].order = NegInfinity
  /\ layerObjs[layers[2]].id = "L1"
  /\ layerObjs[layers[2]].order = 0
  /\ map["L1"] = layers[2]
  /\ NonObject(LayerValue(layers[1], Foo))
  /\ NonObject(LayerValue(layers[2], Foo))

C1_Get == C1_Pre => Get(Foo) = LayerValue(layers[2], Foo)

C1_Delete ==
  (C1_Pre /\ steps' = steps + 1 /\ last'.op = "delete" /\ last'.key = Foo /\ last'.id = "L1")
  => /\ last'.threw = "none"
     /\ last'.ret
     /\ GetAfter(Foo) = LayerValue(layers[1], Foo)

\* C1: with layers [Base, L1] that both hold a non-object at foo, get('foo')
\* returns L1's value, and after delete('foo', 'L1') get('foo') returns the
\* value Base holds.
C1_HigherLayerShadows == []C1_Get /\ [][C1_Delete]_vars

\* delete('foo', 'L1') has just removed L1's non-object value and get('foo')
\* now returns the different non-object value of Base
C1_Witness ==
  /\ last.op = "delete" /\ last.key = Foo /\ last.id = "L1" /\ last.ret
  /\ NonObject(last.old)
  /\ Len(layers) = 2
  /\ NonObject(LayerValue(layers[1], Foo))
  /\ Get(Foo) = LayerValue(layers[1], Foo)
  /\ Get(Foo) # last.old

\* the object values at key from the highest layer down to, and without, the
\* first layer that holds a non-object there; the lowest layer comes first
RECURSIVE C2_Objects(_, _, _)
C2_Objects(oids, key, objects) ==
  IF Len(oids) = 0 THEN objects
  ELSE LET v == Replace(LayerValue(Head(oids), key))
       IN IF v = Undefined THEN C2_Objects(Tail(oids), key, objects)
          ELSE IF v.kind # "o" THEN objects
          ELSE C2_Objects(Tail(oids), key, <<v>> \o objects)

\* C2: when the highest layer that defines key holds an object, get(key) is
\* that object deep-merged over the objects of the next lower layers, and the
\* merge stops at the first lower layer whose value is not an object: a lower
\* layer's value never replaces a higher layer's.
C2_MergeStopsAtNonObject ==
  \A key \in Keys :
    LET objects == C2_Objects(Reverse(layers), key, <<>>)
    IN Len(objects) > 0 => Get(key) = Run("MergeObjects", <<objects, O(<<>>)>>)

\* the Config has the schemaless Base layer only
BaseOnly ==
  /\ Len(layers) = 1
  /\ layerObjs[layers[1]].id = Base
  /\ layerObjs[layers[1]].schema = NoSchema
  /\ \A id \in LayerIds \ {Base} : map[id] = 0

C3_Step ==
  ( /\ BaseOnly
    /\ last.op = "set" /\ last.id = NoId /\ last.threw = "none"
    /\ steps' = steps + 1
    /\ last'.op = "set" /\ last'.id = NoId /\ last'.key = last.key )
  => /\ last'.threw = "none"
     /\ GetAfter(last'.key) = last'.val

\* C3: on a Config with the schemaless Base layer only, after set(k, v1)
\* followed by set(k, v2), get(k) deep-equals v2.
C3_SetOverrides == [][C3_Step]_vars

\* the Layer objects a call visits, in the order it visits them; 0 stands
\* for an id that names no layer
Targets(op, id) ==
  IF id # NoId THEN <<map[id]>>
  ELSE IF op = "set" THEN AsTuple([i \in 1..Len(resolved) |-> map[resolved[i]]])
  ELSE layers

\* one of the schemas marks the node at key, or at a prefix of key, read-only
RECURSIVE SchemaMarks(_, _)
SchemaMarks(schemas, key) ==
  \/ \E i \in 1..Len(schemas) : schemas[i].readonly
  \/ /\ Len(key) > 0
     /\ SchemaMarks(ScopeSchemas(schemas, Head(key)), Tail(key))

\* 'Not allowed to <action> read-only property' and 'Layer is readonly'
ReadOnlyErrors == {"ReadOnlyProperty", "LayerReadonly"}

C4_Step ==
  LET t == Targets(last'.op, last'.id)
  IN ( /\ steps' = steps + 1
       /\ last'.op \in {"set", "delete"}
       /\ \A i \in 1..Len(t) : t[i] # 0 )
     => IF SchemaMarks(LayerSchemas(World, t[1]), last'.key)
        THEN last'.threw \in ReadOnlyErrors /\ heap' = heap
        ELSE ( \A i \in 1..Len(t) :
                 /\ ~layerObjs[t[i]].readonly
                 /\ ~SchemaMarks(LayerSchemas(World, t[i]), last'.key) )
             => last'.threw \notin ReadOnlyErrors

\* C4: when a schema that validates the layer marks the node at path a
\* read-only, set(k, x) and delete(k) with k equal to a or extending a throw a
\* read-only error for every x and leave the store unchanged; a key that no
\* read-only node lies on is not rejected for read-only.
C4_ReadOnlyFieldRejected == [][C4_Step]_vars

C5_Step ==
  ( /\ steps' = steps + 1
    /\ last'.op \in {"set", "delete", "merge"}
    /\ last'.id # NoId
    /\ map[last'.id] # 0
    /\ layerObjs[map[last'.id]].readonly )
  => /\ last'.threw = "LayerReadonly"
     /\ heap' = heap

\* C5: on a layer with readonly = true every set, delete and merge throws
\* 'Layer is readonly' before any validation runs, and the stored data and
\* hashes are unchanged.
C5_ReadonlyLayerFailsFast == [][C5_Step]_vars

\* set() on a read-only layer has thrown 'Layer is readonly' for a key that
\* validation would have rejected as a read-only property
C5_Witness ==
  /\ last.op = "set" /\ last.id # NoId /\ last.threw = "LayerReadonly"
  /\ map[last.id] # 0
  /\ layerObjs[map[last.id]].readonly
  /\ LayerValidate(World, map[last.id], last.key, last.val, "set") = "ReadOnlyProperty"

IsPrefix(p, q) == Len(p) <= Len(q) /\ SubSeq(q, 1, Len(p)) = p
\* neither key is a prefix of the other
Disjoint(k, f) == ~IsPrefix(k, f) /\ ~IsPrefix(f, k)

\* how often a call invoked handler hd for filter f, and for any filter
Invoked(cs, hd, f) == Cardinality({i \in 1..Len(cs) : cs[i].hd = hd /\ cs[i].f = f})
InvokedAll(cs, hd) == Cardinality({i \in 1..Len(cs) : cs[i].hd = hd})

\* layer.get(key) of a Layer object after the step
LayerValueAfter(oid, key) == Run("LayerGet", <<heap', layerObjs'[oid], key>>)

NonEmpty(pv) == pv # Undefined /\ ~(pv.kind = "o" /\ Len(pv.kv) = 0)

C6_Step ==
  \A hd \in Handlers, f \in Filters :
    LET t == Targets("set", NoId)
    IN ( /\ steps' = steps + 1
         /\ paused = 0
         /\ last'.op = "set" /\ last'.id = NoId /\ last'.threw = "none"
         /\ watcherMap[hd] = <<f>>
         /\ \A i \in 1..Len(t) : t[i] # 0
         /\ \E i \in 1..Len(t) : LayerValue(t[i], f) # LayerValueAfter(t[i], f) )
       => InvokedAll(calls', hd) = 1

\* C6: a handler registered once, with filter F, is invoked exactly once by a
\* set call that changes the value at F in one or more of the layers that
\* resolve() returns.
C6_OnceForAChange == [][C6_Step]_vars

C7_Step ==
  \A hd \in Handlers, f \in Filters :
    ( /\ steps' = steps + 1
      /\ paused = 0
      /\ last'.op \in {"set", "delete"}
      /\ watcherMap[hd] = <<f>>
      /\ Disjoint(last'.key, f) )
    => InvokedAll(calls', hd) = 0

\* C7: a handler registered with filter F, and with no other filter, is not
\* invoked by a set or delete whose key is disjoint from F, however many other
\* watchers are registered.
C7_DisjointKeyIsSilent == [][C7_Step]_vars

C8_Step ==
  \A hd \in Handlers, f \in Filters :
    ( /\ steps' = steps + 1
      /\ paused = 0
      /\ last'.op = "delete" /\ last'.threw = "none" /\ last'.ret
      /\ watcherMap[hd] = <<f>>
      /\ IsPrefix(f, last'.key) /\ f # last'.key
      /\ \A i \in 1..Len(layers) :
           LayerValue(layers[i], last'.key) # Undefined
           => NonEmpty(LayerValueAfter(layers[i], f)) )
    => InvokedAll(calls', hd) = 1

\* C8: a handler registered with filter F is invoked exactly once by a delete
\* that removes an existing key extending F while the value at F stays
\* non-empty.
C8_DeleteBelowFilterNotifies == [][C8_Step]_vars

\* C9: after unwatch(h) has returned, so that h is registered with no filter
\* any more, no later call invokes h, on whatever layer it acts.
C9_SilentAfterUnwatch ==
  \A hd \in Handlers : watcherMap[hd] = <<>> => InvokedAll(calls, hd) = 0

\* every (filter, handler) pair of the watcher list is attached to the store
\* of every layer of the list
C10_Attached ==
  \A i \in 1..Len(layers), w \in 1..Len(watchers) :
    \E n \in 1..Len(heap[layerObjs[layers[i]].store].listeners) :
      LET e == heap[layerObjs[layers[i]].store].listeners[n]
      IN /\ e.f = watchers[w].filter
         /\ e.l.lay = layers[i]
         /\ e.l.hd = watchers[w].handler.hd
         /\ e.l.f = watchers[w].handler.f

C10_Step ==
  \A w \in 1..Len(watchers) :
    ( /\ steps' = steps + 1
      /\ last'.op = "set" /\ last'.threw = "none"
      /\ last'.id # NoId /\ map[last'.id] = 0
      /\ IsPrefix(watchers[w].filter, last'.key) )
    => Invoked(calls', watchers[w].handler.hd, watchers[w].filter) >= 1

\* C10: every layer of the list, also one added or replaced after watch(),
\* has each registered (filter, handler) pair attached to its store, so a
\* change made in a layer that was created after watch(F, h) invokes h.
C10_LaterLayersAreWatched == []C10_Attached /\ [][C10_Step]_vars

\* C11: a call that is applied to several layers invokes no watch handler
\* before it has been applied to all the layers it targets.
C11_HandlersAfterAllLayers ==
  \A i \in 1..Len(calls) : calls[i].todo = 0

\* the position of the (filter, handler) pair in the order of registration
WatcherPos(ws, hd, f) == CHOOSE i \in 1..Len(ws) : ws[i].handler = Desc(hd, f)

C12_Step ==
  ( /\ steps' = steps + 1
    /\ paused = 0
    /\ last'.op \in {"set", "delete"} )
  => \A i, j \in 1..Len(calls') :
       (i < j /\ calls'[i].hd # calls'[j].hd)
       => WatcherPos(watchers, calls'[i].hd, calls'[i].f)
            < WatcherPos(watchers, calls'[j].hd, calls'[j].f)

\* C12: the different watch handlers that one set or delete call invokes are
\* invoked in the order in which they were registered with watch().
C12_RegistrationOrder == [][C12_Step]_vars

\* the orders of the listed layers do not decrease along the list
Sorted(L, list) ==
  \A i, j \in 1..Len(list) : i < j => L[list[i]].order <= L[list[j]].order

\* the Base layer is listed, and listed first
BaseFirst(L, list) == Len(list) > 0 /\ L[list[1]].id = Base

\* the position of the layer object oid in the list, 0 when it is not listed
PosOf(list, oid) ==
  IF \E i \in 1..Len(list) : list[i] = oid
  THEN CHOOSE i \in 1..Len(list) : list[i] = oid
  ELSE 0

\* the layer objects a call has spliced into the list
Inserted ==
  {n \in 1..Len(layerObjs') :
     /\ PosOf(layers', n) > 0
     /\ PosOf(layers, n) = 0 \/ (last'.op = "addInstance" /\ last'.oid = n)}

\* a call that adds a layer puts it after every listed layer of the same
\* order and keeps the other layers in the order they had
StableInsert ==
  last'.op \in {"add", "addInstance", "load", "set"}
  => /\ \A a, b \in (1..Len(layerObjs)) \ Inserted :
          ( /\ PosOf(layers, a) > 0 /\ PosOf(layers, b) > 0
            /\ PosOf(layers', a) > 0 /\ PosOf(layers', b) > 0
            /\ PosOf(layers, a) < PosOf(layers, b) )
          => PosOf(layers', a) < PosOf(layers', b)
     /\ \A n \in Inserted, b \in 1..Len(layerObjs') :
          ( /\ PosOf(layers', b) > 0
            /\ b # n
            /\ layerObjs'[b].order = layerObjs'[n].order )
          => PosOf(layers', b) < PosOf(layers', n)

C13_Step ==
  steps' = steps + 1
  => /\ BaseFirst(layerObjs', layers')
     /\ Sorted(layerObjs', layers')
     /\ StableInsert

\* C13: after every add, remove, load and set call the Base layer is listed
\* first, the list is sorted by non-decreasing order, and layers of equal
\* order stay in the order in which they were inserted.
C13_BaseFirstAndSorted == [][C13_Step]_vars

\* the call names a layer object that is static: by id through the id index,
\* or by reference
NamesStatic ==
  /\ steps' = steps + 1
  /\ last'.op \in {"unload", "remove", "removeObject"}
  /\ last'.oid # 0
  /\ layerObjs[last'.oid].static

C14_Step ==
  NamesStatic => /\ last'.threw = "StaticLayer"
                 /\ map' = map
                 /\ layers' = layers

\* C14: every unload or remove call that names a static layer, by id or by
\* reference, throws 'Cannot unload static layer' and leaves the id index and
\* the ordered list as they were.
C14_StaticNeverRemoved == [][C14_Step]_vars

\* the id index and the ordered list hold the same layer objects, and no id
\* is listed twice
SameLayers(L, m, list) ==
  /\ {m[id] : id \in LayerIds} \ {0} = {list[i] : i \in 1..Len(list)}
  /\ \A i, j \in 1..Len(list) : L[list[i]].id = L[list[j]].id => i = j

C15_Step ==
  ( /\ steps' = steps + 1
    /\ last'.op \in {"add", "addInstance", "remove", "removeObject"} )
  => /\ SameLayers(layerObjs', map', layers')
     /\ (last'.op \in {"remove", "removeObject"} /\ last'.threw = "none")
        => (last'.ret <=> (map' # map \/ layers' # layers))

\* C15: after every add or remove call of the layer list, the id index and
\* the ordered list hold exactly the same layers and no id is listed twice,
\* and remove returns true exactly when it removed a layer.
C15_IndexMatchesList == [][C15_Step]_vars

\* the ids of a query that name a layer of the id index
Existing(ids) == SelectSeq(ids, LAMBDA id : map[id] # 0)

\* the original statement: a query throws when one of its ids is missing
C16_Step_Any ==
  (steps' = steps + 1 /\ last'.op = "query")
  => IF last'.id = NoId THEN last'.threw = "none"
     ELSE (Len(Existing(last'.key)) < Len(last'.key)) => last'.threw = "NotFound"

\* C16 as stated: query(ids) throws a 'not found' error if any one of the
\* requested ids names no layer; query() of all layers never throws.
C16_ThrowsIfAnyMissing == [][C16_Step_Any]_vars

C16_Step ==
  (steps' = steps + 1 /\ last'.op = "query")
  => IF last'.id = NoId THEN last'.threw = "none"
     ELSE /\ last'.threw = "NotFound" <=> Len(Existing(last'.key)) = 0
          /\ last'.threw = "none"
             => last'.f = IF last'.ret THEN Reverse(Existing(last'.key))
                          ELSE Existing(last'.key)

\* C16: query(ids) throws a 'not found' error exactly when none of the
\* requested ids names a layer; otherwise it yields the layers of the ids
\* that exist, in the order asked for, and skips the missing ids.  query()
\* of all layers never throws.
C16_ThrowsIfNoneFound == [][C16_Step]_vars

\* a query for Base and for L2, which does not exist, has returned Base
C16_Witness ==
  /\ last.op = "query"
  /\ last.key = <<Base, "L2">>
  /\ map["L2"] = 0
  /\ last.threw = "none"
  /\ last.f = <<Base>>

\* the ids resolve() returns
ResolvedIds == {resolved[i] : i \in 1..Len(resolved)}

C17_Step ==
  ( /\ steps' = steps + 1
    /\ last'.op \in {"set", "delete", "merge"}
    /\ last'.id = NoId )
  => \A oid \in 1..Len(layerObjs) :
       layerObjs[oid].id \notin ResolvedIds
       => LayerValueAfter(oid, <<>>) = LayerValue(oid, <<>>)

\* C17: a set, delete or merge call without a layer id changes only the
\* layers whose ids resolve() returns; the data of every other layer is as
\* it was before the call.
C17_OnlyResolvedLayersChange == [][C17_Step]_vars

\* how often the listener l was invoked
Times(cs, l) == Cardinality({i \in 1..Len(cs) : cs[i].hd = l.hd /\ cs[i].lay = l.lay})

C18_Step ==
  ( /\ steps' = steps + 1
    /\ last.op = "assign"
    /\ last'.op = "assign"
    /\ last'.oid = last.oid /\ last'.key = last.key /\ last'.val = last.val )
  => /\ \A i \in 1..Len(heap) : heap'[i] = heap[i]
     /\ calls' = <<>>
     /\ \A i \in 1..Len(calls) : Times(calls, calls[i]) = 1

\* C18: of two assignments n[p] = v in a row, the second leaves every node
\* as it was (value, hash and child hashes) and invokes no listener, and the
\* two together invoke each listener at most once.
C18_SecondAssignIsNoOp == [][C18_Step]_vars

\* the values and hashes of all nodes, without their listeners and counters
StructOf(h) ==
  AsTuple([i \in 1..Len(h) |-> [props |-> h[i].props, hashes |-> h[i].hashes, hash |-> h[i].hash]])

\* the heap after the latest assignment, had no node been paused
Unpaused(h) == AsTuple([i \in 1..Len(h) |-> [h[i] EXCEPT !.paused = 0, !.pending = 0]])
AssignedUnpaused ==
  Run("ProxySet", <<[h |-> Unpaused(heap), ev |-> <<>>], last'.oid, last'.key[1],
                    PlainVal(last'.val)>>).h

\* the global listeners of node n
GlobalListeners(n) ==
  {heap[n].listeners[i].l : i \in {j \in 1..Len(heap[n].listeners) :
                                     Len(heap[n].listeners[j].f) = 0}}

C19_Step ==
  steps' = steps + 1
  => /\ \A n \in 1..Len(heap) :
          (heap[n].paused > 0 /\ heap'[n].paused > 0)
          => /\ \A i \in 1..Len(calls') : calls'[i].lay # n
             /\ (last'.op = "assign" /\ last'.oid = n /\ heap'[n].hash # heap[n].hash)
                => heap'[n].pending > heap[n].pending
     /\ last'.op = "assign" => StructOf(heap') = StructOf(AssignedUnpaused)
     /\ \A n \in 1..Len(heap) :
          ( /\ last'.op = "resumeNode" /\ last'.oid = n
            /\ heap[n].paused = 1
            /\ heap[n].pending > 0 )
          => /\ heap'[n].paused = 0
             /\ \A l \in GlobalListeners(n) : Times(calls', l) = 1

\* C19: during a call through which a node stays paused none of its
\* listeners is invoked, while an assignment gives every node the value and
\* the hashes it would give them without the pause and an assignment that
\* changes the paused node is counted as pending; the resume that brings the
\* depth back to 0 with a change pending invokes each global listener of the
\* node exactly once.
C19_PausedNodeIsSilent == [][C19_Step]_vars

\* a node with a global listener was paused, changed and resumed, and the
\* resume has invoked the listener
C19_Witness ==
  /\ last.op = "resumeNode"
  /\ heap[last.oid].paused = 0
  /\ \E l \in GlobalListeners(last.oid) : Times(calls, l) = 1

\* the nodes ns with their ancestors, following parents k times
RECURSIVE WithAncestors(_, _, _)
WithAncestors(h, ns, k) ==
  IF k = 0 THEN ns
  ELSE WithAncestors(h, ns \cup UNION {{h[n].parents[i] : i \in 1..Len(h[n].parents)} :
                                         n \in ns}, k - 1)

\* the array node of the latest call and its ancestors
Notified == WithAncestors(heap, {last'.oid}, Len(heap))

ArrayChanged ==
  Run("ToPV", <<heap', last'.oid>>) # Run("ToPV", <<heap, last'.oid>>)

C20_Step ==
  ( /\ steps' = steps + 1
    /\ last'.op \in {"push", "unshift", "pop", "shift", "splice"}
    /\ \A m \in Notified : heap[m].paused = 0 )
  => IF last'.op \in {"push", "unshift"} /\ Len(last'.val.kv) = 0
     THEN calls' = <<>>
     ELSE (last'.op = "splice" => ArrayChanged)
          => \A m \in Notified : \A l \in GlobalListeners(m) : Times(calls', l) = 1

\* C20: on an array node that is not paused and has no paused ancestor, push
\* and unshift with at least one item, pop, shift and a splice that changes
\* the array invoke each global listener of the array node and of each of
\* its ancestors exactly once, whatever the items are; push() and unshift()
\* without arguments invoke no listener.
C20_ArrayMethodNotifiesOnce == [][C20_Step]_vars

C21_Step ==
  ( /\ steps' = steps + 1
    /\ last'.op = "spliceAt"
    /\ heap'[last'.oid].hash = heap[last'.oid].hash )
  => calls' = <<>>

\* C21: a splice after which the hash of the array node is the hash it had
\* before the call invokes no listener.
C21_SilentWhenHashIsKept == [][C21_Step]_vars

\* the machine after mix has merged every key of the source and before
\* Node.merge resumes the node
Mixed ==
  Run("mix", <<pause([h |-> heap, ev |-> <<>>], last'.oid), last'.val.kv, ProxyOf(last'.oid)>>)

C22_Step ==
  ( /\ steps' = steps + 1
    /\ last'.op = "mergeNode"
    /\ last'.threw = "none"
    /\ heap[last'.oid].paused = 0 )
  => /\ StructOf(heap') = StructOf(Mixed.h)
     /\ \A l \in GlobalListeners(last'.oid) :
          /\ Times(calls', l) <= 1
          /\ \A i \in 1..Len(Mixed.ev) : Mixed.ev[i] # l

\* C22: Node.merge(n, src) on a node n that is not paused invokes each global
\* listener of n at most once, and none of them before every key of src is
\* merged: the nodes have their final values and hashes when mix returns.
C22_MergeNotifiesOnceAtTheEnd == [][C22_Step]_vars

\* a merge of several keys into an unpaused node has invoked its listener
C22_Witness ==
  /\ last.op = "mergeNode"
  /\ last.threw = "none"
  /\ Len(last.val.kv) > 1
  /\ heap[last.oid].paused = 0
  /\ \E l \in GlobalListeners(last.oid) : Times(calls, l) = 1

\* the key paths of the object src whose value is a scalar or an array
RECURSIVE LeafPaths(_, _)
LeafPaths(src, prefix) ==
  UNION {IF src.kv[i].v.kind = "o"
         THEN LeafPaths(src.kv[i].v, Append(prefix, src.kv[i].k))
         ELSE {[path |-> Append(prefix, src.kv[i].k), v |-> src.kv[i].v]} :
         i \in 1..Len(src.kv)}

\* the keys of before that do not occur in src have their value in after
RECURSIVE KeptOK(_, _, _)
KeptOK(before, after, src) ==
  \A i \in 1..Len(before.kv) :
     LET k == before.kv[i].k
         b == before.kv[i].v
     IN IF ~PVHas(src, k) THEN PVHas(after, k) /\ PVGet(after, k) = b
        ELSE (PVGet(src, k).kind = "o" /\ b.kind = "o")
             => KeptOK(b, PVGet(after, k), PVGet(src, k))

\* src holds an object where before holds an array
RECURSIVE ObjectOntoArray(_, _)
ObjectOntoArray(before, src) ==
  \E i \in 1..Len(src.kv) :
     LET k == src.kv[i].k
         v == src.kv[i].v
     IN v.kind = "o" /\ PVHas(before, k)
        /\ \/ PVGet(before, k).kind = "a"
           \/ ObjectOntoArray(PVGet(before, k), v)

MergeBefore == Run("ToPV", <<heap, last'.oid>>)
MergeAfter == Run("ToPV", <<heap', last'.oid>>)

C23_Step ==
  ( /\ steps' = steps + 1
    /\ last'.op = "mergeNode"
    /\ last'.threw = "none"
    /\ ~ObjectOntoArray(MergeBefore, last'.val) )
  => /\ \A leaf \in LeafPaths(last'.val, <<>>) : PVAt(MergeAfter, leaf.path) = leaf.v
     /\ KeptOK(MergeBefore, MergeAfter, last'.val)

\* C23: after Node.merge(n, src), n holds at every key path of src whose
\* value is a scalar or an array a value equal to it (an array of n is
\* replaced by the array of src), below the objects of src the keys are
\* merged in the same way, and every key of n that src does not have keeps
\* its value (src holding no object where n holds an array).
C23_MergedValues == [][C23_Step]_vars

\* value x is an element of the array arr, as Array.prototype.indexOf finds
\* it: an object is never found
Present(arr, x) ==
  x.kind = "s" /\ \E i \in 1..Len(arr.kv) : arr.kv[i].v = x

C24_Step ==
  ( /\ steps' = steps + 1
    /\ last.op = "push" /\ last.threw = "none"
    /\ last.old # Undefined /\ last.old.kind = "a"
    /\ last.val.kind # "a" /\ last.val # Null
    /\ ~Present(last.old, last.val)
    /\ last'.op = "pop" /\ last'.threw = "none"
    /\ last'.key = last.key /\ last'.id = last.id )
  => /\ last'.val = last.val
     /\ GetAfter(last.key) = last.old

Distinct(arr) ==
  \A i \in 1..Len(arr.kv) :
     /\ arr.kv[i].v # Null
     /\ arr.kv[i].v.kind = "s" => \A j \in 1..Len(arr.kv) : arr.kv[j].v = arr.kv[i].v => j = i

\* no layer after the one that push and pop write to holds a value at key
Unshadowed(key, id) ==
  LET dest == map[IF id = NoId THEN Base ELSE id]
  IN \A i, j \in 1..Len(layers) :
        (layers[i] = dest /\ j > i) => LayerValue(layers[j], key) = Undefined

C24_AmendedStep ==
  ( /\ steps' = steps + 1
    /\ last.op = "push" /\ last.threw = "none"
    /\ last.old # Undefined /\ last.old.kind = "a"
    /\ last.val.kind # "a" /\ last.val # Null
    /\ ~Present(last.old, last.val)
    /\ Distinct(last.old)
    /\ Unshadowed(last.key, last.id)
    /\ last'.op = "pop" /\ last'.threw = "none"
    /\ last'.key = last.key /\ last'.id = last.id )
  => /\ last'.val = last.val
     /\ GetAfter(last.key) = last.old

C25_Step ==
  ( /\ steps' = steps + 1
    /\ last'.op \in {"push", "unshift"} /\ last'.threw = "none"
    /\ last'.old # Undefined /\ last'.old.kind = "a"
    /\ Present(last'.old, last'.val) )
  => GetAfter(last'.key) = last'.old

\* C25: push(key, x) and unshift(key, x) with a value x that is an element
\* of the array at key leave get(key) as it was.
C25_PresentValueIsNoOp == [][C25_Step]_vars

C25_PushStep ==
  ( /\ steps' = steps + 1
    /\ last'.op = "push" /\ last'.threw = "none"
    /\ last'.old # Undefined /\ last'.old.kind = "a"
    /\ Distinct(last'.old)
    /\ Present(last'.old, last'.val) )
  => GetAfter(last'.key) = last'.old

\* push alone, on an array without null or repeated scalar elements, leaves
\* get(key) as it was when x is an element of the array
C25_PushOfPresentValue == [][C25_PushStep]_vars

\* the layer a call with a layer id addressed, as it is after the call, and
\* the value and presence of key k in its store
LayerAfter(id) == layerObjs'[map'[id]]
StoreValueAfter(id, k) == Run("StoreGet", <<heap', LayerAfter(id).store, k>>)
StoreHasAfter(id, k) == Run("StoreHas", <<heap', LayerAfter(id).store, k>>)

\* a call on layer L1 that returned, with a key ns.k inside the namespace
NsCall(op) ==
  /\ steps' = steps + 1
  /\ last'.op = op /\ last'.id = "L1" /\ last'.threw = "none"
  /\ Len(last'.key) >= 2 /\ last'.key[1] = Namespace

C26_Step ==
  /\ NsCall("set") =>
       /\ Run("ConfigGet", <<WorldAfter, last'.key, "L1">>) = last'.val
       /\ StoreValueAfter("L1", Tail(last'.key)) = last'.val
  /\ NsCall("has") =>
       /\ last'.ret = StoreHasAfter("L1", Tail(last'.key))
       /\ last'.old = StoreValueAfter("L1", Tail(last'.key))
  /\ (NsCall("delete") /\ last'.old # Undefined) =>
       /\ last'.ret
       /\ ~StoreHasAfter("L1", Tail(last'.key))
  /\ (NsCall("delete") /\ last.op = "delete" /\ last.id = "L1" /\ last.key = last'.key) =>
       ~last'.ret

\* C26: on the layer L1 of namespace ns, set('ns.k', v) makes get('ns.k')
\* return v and puts v at key k of the store; has and get of 'ns.k' read
\* key k of the store; delete('ns.k') of a key that holds a value returns
\* true and removes k from the store, and a repeated delete returns false.
C26_NamespacedKeyIsStoreKey == [][C26_Step]_vars

C26_NoCollisionStep ==
  /\ (NsCall("set") /\ (last'.old = Undefined \/ last'.old.kind = "s" \/ last'.val.kind = "s")) =>
       /\ Run("ConfigGet", <<WorldAfter, last'.key, "L1">>) = last'.val
       /\ StoreValueAfter("L1", Tail(last'.key)) = last'.val
  /\ NsCall("has") =>
       /\ last'.ret = StoreHasAfter("L1", Tail(last'.key))
       /\ last'.old = StoreValueAfter("L1", Tail(last'.key))
  /\ (NsCall("delete") /\ last'.old # Undefined) =>
       /\ last'.ret
       /\ ~StoreHasAfter("L1", Tail(last'.key))
  /\ (NsCall("delete") /\ last.op = "delete" /\ last.id = "L1" /\ last.key = last'.key) =>
       ~last'.ret

\* the same with set confined to the cases where the old or the new value
\* at ns.k is a scalar or the key is new
C26_ScalarOrNewKey == [][C26_NoCollisionStep]_vars
C26_TranslationStep ==
  /\ NsCall("set") =>
       StoreValueAfter("L1", Tail(last'.key)) =
         Run("ConfigGet", <<WorldAfter, last'.key, "L1">>)
  /\ (steps' = steps + 1 /\ last'.op = "set" /\ last'.id = "L1" /\ last'.key[1] # Namespace) =>
       /\ last'.threw = "none"
       /\ heap' = heap

\* what get('ns.k') returns after a set on L1 is what the store holds at k,
\* and a set of a key outside the namespace leaves the store alone
C26_GetReadsStoreKey == [][C26_TranslationStep]_vars

\* a set on layer L1 that returned, with the bare namespace as the key and
\* an object as the value
NsWholeSet ==
  /\ steps' = steps + 1
  /\ last'.op = "set" /\ last'.id = "L1" /\ last'.threw = "none"
  /\ last'.key = <<Namespace>> /\ last'.val.kind = "o"

C27_Step == NsWholeSet => Run("ConfigGet", <<WorldAfter, last'.key, "L1">>) = last'.val

\* C27: on the layer L1 of namespace ns, set('ns', obj) replaces the whole
\* data of the layer: afterwards get('ns') on L1 equals obj.
C27_SetNamespaceReplacesData == [][C27_Step]_vars

\* set('ns', obj) on L1 returns without changing anything
C27_SetNamespaceIsNoOp == [][NsWholeSet => heap' = heap]_vars

\* the contents of a file: what the namespace holds when the file is
\* already wrapped as { ns: contents }, the file itself when it is flat
Contents(file) ==
  IF Len(file.kv) = 1 /\ file.kv[1].k = Namespace THEN file.kv[1].v ELSE file

C28_Step ==
  ( /\ steps' = steps + 1
    /\ last'.op = "load" /\ last'.id = "L1" /\ last'.threw = "none" )
  => GetAfter(<<>>) = Wrap(Contents(last'.val))

\* C28: after a file is loaded into the layer of namespace ns, get() is
\* { ns: contents } both for a flat file and for a file that already holds
\* { ns: contents }.
C28_NamespaceNotNestedTwice == [][C28_Step]_vars

C28_FlatStep ==
  ( /\ steps' = steps + 1
    /\ last'.op = "load" /\ last'.id = "L1" /\ last'.threw = "none" )
  => GetAfter(<<>>) = Wrap(last'.val)

\* every file, flat or not, ends up under the namespace as it is
C28_FileIsWrappedAsItIs == [][C28_FlatStep]_vars

\* a load into the layer id that is already listed
Reloaded ==
  /\ steps' = steps + 1
  /\ last'.op = "load" /\ last'.id # NoId /\ last'.threw = "none"
  /\ map[last'.id] # 0

\* the value at filter differs between the old layer and the one loaded
ValueDiffers(id, filter) ==
  LayerValue(map[id], filter) # LayerValueAfter(map'[id], filter)

C29_Step ==
  Reloaded =>
    \A w \in 1..Len(watchers) :
       Invoked(calls', watchers[w].handler.hd, watchers[w].filter)
         = IF ValueDiffers(last'.id, watchers[w].filter) THEN 1 ELSE 0

\* C29: when load targets a layer id that is already listed, each
\* registered (filter, handler) pair is invoked once if the value at filter
\* differs between the old layer and the new one, and not at all if the
\* two values are equal.
C29_ReloadNotifiesChangedFilters == [][C29_Step]_vars

\* an empty object, which Layer.get makes anew on every call
Empty == O(<<>>)
\* two values with one hash: objects or arrays that differ in key names only
RECURSIVE ValueHash(_)
ValueHash(pv) ==
  IF pv.kind = "s" THEN HashScalar(pv.s)
  ELSE HashList(AsTuple([i \in 1..Len(pv.kv) |-> [k |-> pv.kv[i].k, h |-> ValueHash(pv.kv[i].v)]]))
SameHash(a, b) ==
  /\ a # Undefined /\ b # Undefined /\ a.kind # "s" /\ b.kind # "s"
  /\ ValueHash(a) = ValueHash(b)

C29_HashedStep ==
  Reloaded =>
    \A w \in 1..Len(watchers) :
       LET old == LayerValue(map[last'.id], watchers[w].filter)
           new == LayerValueAfter(map'[last'.id], watchers[w].filter)
       IN (~(old = Empty /\ new = Empty) /\ (old # new => ~SameHash(old, new))) =>
             Invoked(calls', watchers[w].handler.hd, watchers[w].filter)
               = IF old # new THEN 1 ELSE 0

\* the same for the filters whose two values are not both an empty object
\* and, when they differ, do not share a hash
C29_ReloadNotifiesChangedHashes == [][C29_HashedStep]_vars

C30_Step ==
  ( /\ steps' = steps + 1
    /\ last'.op = "assignSelf" /\ ~last'.ret )
  => /\ last'.threw # "none"
     /\ heap' = heap

\* C30: n[p] = n, the assignment of a node to a property of itself, throws
\* and leaves the node as it was.
C30_SelfAssignmentThrows == [][C30_Step]_vars

C30_RawStep ==
  ( /\ steps' = steps + 1
    /\ last'.op = "assignSelf" /\ last'.ret )
  => /\ last'.threw = "Error"
     /\ heap' = heap /\ calls' = <<>>

\* n[p] = raw, with the raw object n was made of, throws and changes nothing
C30_RawObjectAssignmentThrows == [][C30_RawStep]_vars

(***************************************************************************)
(* C31 - C40                                                               *)
(***************************************************************************)

\* C31: two node trees with structurally identical contents have equal
\* hashes, whatever the assignments, deletions and array calls that built
\* them.  The contents are compared with the order of the keys included.
C31_SameContentsSameHash ==
  ToPV(heap, 1) = ToPV(heap, 2) => heap[1].hash = heap[2].hash

\* C31 (side): two Nodes just made of the same value have equal hashes
C31_NewNodesOfEqualValues ==
  steps = 0 => ToPV(heap, 1) = ToPV(heap, 2) /\ heap[1].hash = heap[2].hash

\* the hash that node p stores for each child node is the child's hash
ChildHashesCurrent(h, p) ==
  \A i \in 1..Len(h[p].props) :
     h[p].props[i].t \in {"n", "r"} =>
        GetHash(h[p].hashes, h[p].props[i].k) = h[h[p].props[i].n].hash

\* the hash of node p is the hash of the child hashes it stores
OwnHashCurrent(h, p) == h[p].hash = HashList(ArrayHashes(h[p].arr, h[p].hashes))

\* C32: after every completed node operation every node's stored child
\* hashes are the current hashes of its children, and every node's hash is
\* the hash computed from its stored child hashes
C32_HashesConsistent ==
  \A p \in 1..Len(heap) : ChildHashesCurrent(heap, p) /\ OwnHashCurrent(heap, p)

\* C32 (side): assignments and array calls, without a deletion before them,
\* leave the hashes consistent
C32_Undeleted ==
  [][(C32_HashesConsistent /\ last'.op \in {"assign", "push", "unshift", "splice"})
       => C32_HashesConsistent']_vars


\* some property of node p holds node c
HeldBy(h, p, c) ==
  \E i \in 1..Len(h[p].props) : h[p].props[i].t \in {"n", "r"} /\ h[p].props[i].n = c

\* C33: for all nodes p and c, p is in c's parents set if and only if some
\* property of p currently holds c
C33_ParentsAreHolders ==
  \A p \in 1..Len(heap), c \in 1..Len(heap) :
     SeqHas(heap[c].parents, p) <=> HeldBy(heap, p, c)

\* C33 (consequence): an assignment to a node that no property holds invokes
\* the listeners of no other node
C33_DetachedIsSilent ==
  [][(steps' = steps + 1 /\ last'.op = "assign"
      /\ ~\E p \in 1..Len(heap) : HeldBy(heap, p, last'.oid))
     => \A i \in 1..Len(calls') : calls'[i].lay = last'.oid]_vars

\* C33 (side): deleting the property that held c removes p from c's parents
C33_DeleteDetaches ==
  [][(steps' = steps + 1 /\ last'.op = "deleteProp")
     => \A c \in 1..Len(heap) :
          (HeldBy(heap, last'.oid, c) /\ ~HeldBy(heap', last'.oid, c))
          => ~SeqHas(heap'[c].parents, last'.oid)]_vars


\* the values of an object, in the order of its keys, without the keys
ValuesOf(pv) == AsTuple([i \in 1..Len(pv.kv) |-> pv.kv[i].v])

\* C34: two object nodes that hold the same values under different key
\* names have different hashes
C34_KeyNamesAreHashed ==
  \A m \in 1..Len(heap), n \in 1..Len(heap) :
     (/\ ~heap[m].arr /\ ~heap[n].arr
      /\ Len(heap[m].props) > 0
      /\ ValuesOf(ToPV(heap, m)) = ValuesOf(ToPV(heap, n))
      /\ KeysOf(heap[m].props) # KeysOf(heap[n].props))
     => heap[m].hash # heap[n].hash

\* C34 (consequence): an object assigned to a property that holds an object
\* with other key names replaces it
C34_ReplacementDetected ==
  [][(steps' = steps + 1 /\ last'.op = "assign")
     => PVGet(ToPV(heap', last'.oid), last'.key[1]) = last'.val]_vars


\* the parents of node c, their parents, and so on
RECURSIVE AncestorsFrom(_, _, _)
AncestorsFrom(h, ns, k) ==
  IF k = 0 THEN ns
  ELSE AncestorsFrom(h, ns \cup {p \in 1..Len(h) : \E n \in ns : SeqHas(h[n].parents, p)},
                     k - 1)
AncestorsOf(h, c) ==
  AncestorsFrom(h, {p \in 1..Len(h) : SeqHas(h[c].parents, p)}, Len(h))

\* a mutation of a node held by two parents or more
SharedMutation(ops) ==
  /\ steps' = steps + 1
  /\ last'.op \in ops
  /\ Len(heap[last'.oid].parents) >= 2
  /\ ToPV(heap', last'.oid) # ToPV(heap, last'.oid)

\* every parent's hash is current and the global listeners of every parent
\* and ancestor have been invoked
AllParentsUpdated(c) ==
  /\ \A p \in 1..Len(heap) :
        SeqHas(heap[c].parents, p)
        => ChildHashesCurrent(heap', p) /\ OwnHashCurrent(heap', p)
  /\ \A a \in AncestorsOf(heap, c) :
        \A l \in GlobalListeners(a) : Times(calls', l) >= 1

\* C35: when a node is held by several parents, a single mutation of it
\* (assignment, deletion, array call) updates the hash of every parent and
\* invokes the listeners of every parent and of their ancestors
C35_EveryParentUpdated ==
  [][SharedMutation({"assign", "deleteProp", "push", "unshift", "pop", "shift"})
     => AllParentsUpdated(last'.oid)]_vars

\* C35 (side): so it is for the mutations other than a deletion
C35_EveryParentUpdatedBySet ==
  [][SharedMutation({"assign", "push", "unshift", "pop", "shift"})
     => AllParentsUpdated(last'.oid)]_vars


\* C36: the Config pause counter is 0 whenever no Config operation is
\* executing, also after a set or delete call that has thrown
C36_NotPausedAtRest == paused = 0

\* C36 (side): a call that does not throw leaves the counter as it found it
C36_ReturningCallKeepsCounter ==
  [][(steps' = steps + 1 /\ last'.threw = "none") => paused' = paused]_vars


\* a set or delete call that returns and changes the data of a layer, while
\* handler hd is registered for all changes
ChangeWatchedBy(hd) ==
  /\ steps' = steps + 1
  /\ last'.op \in {"set", "delete"} /\ last'.threw = "none"
  /\ \E j \in 1..Len(watcherMap[hd]) : watcherMap[hd][j] = <<>>
  /\ \E i \in 1..Len(layers) :
       layers[i] # 0 /\ LayerValue(layers[i], <<>>) # LayerValueAfter(layers[i], <<>>)

\* C36 (consequence): a successful mutation invokes the registered watch
\* handlers, also when an earlier call has thrown
C36_LaterMutationNotifies ==
  [][\A hd \in Handlers : ChangeWatchedBy(hd) => InvokedAll(calls', hd) >= 1]_vars

\* C36 (side): it does so when the counter is 0 before the call
C36_UnpausedMutationNotifies ==
  [][\A hd \in Handlers :
       (paused = 0 /\ ChangeWatchedBy(hd)) => InvokedAll(calls', hd) >= 1]_vars


\* the value pv without the value at key, and without those objects on the
\* way to key that are left empty
RECURSIVE DeletePruned(_, _)
DeletePruned(pv, key) ==
  IF pv.kind # "o" \/ ~HasKey(pv.kv, Head(key)) THEN pv
  ELSE IF Len(key) = 1 THEN [pv EXCEPT !.kv = RemoveKey(@, Head(key))]
  ELSE LET sub == DeletePruned(PVGet(pv, Head(key)), Tail(key))
       IN IF sub = PVGet(pv, Head(key)) THEN pv
          ELSE IF sub = O(<<>>) THEN [pv EXCEPT !.kv = RemoveKey(@, Head(key))]
          ELSE PVPut(pv, Head(key), sub)

C37_Step ==
  (steps' = steps + 1 /\ last'.op = "delete" /\ last'.threw = "none")
  => \A i \in 1..Len(layers) :
        layers[i] # 0
        => LayerValueAfter(layers[i], <<>>) = DeletePruned(LayerValue(layers[i], <<>>), last'.key)

\* C37: delete(key) on a JSON store removes only key itself and those
\* ancestors of key that thereby become empty objects; the value at every
\* other path is unchanged
C37_DeleteRemovesOnlyKey == [][C37_Step]_vars

\* C37 (side): so it is when every ancestor of key is left empty or key has
\* one segment: the loop ends with the unwinding
C37_DeleteOfOnlyChild ==
  [][(Len(last'.key) = 1
      \/ DeletePruned(LayerValue(layers[1], <<>>), last'.key)
           = DeletePruned(LayerValue(layers[1], <<>>), <<Head(last'.key)>>))
     => C37_Step]_vars


\* a call of get is in progress
Getting == Len(calls) > 0 /\ last.op = "get" /\ ~last.ret /\ last.threw = "none"

\* C38: Config.get(key) terminates, returning a value or throwing, for every
\* configuration, also when string values reference each other or
\* themselves through {{...}} templates
C38_GetTerminates ==
  Getting ~> (Len(calls) = 0 /\ last.op = "get" /\ (last.ret \/ last.threw # "none"))

\* a call of get on values that reference themselves has ended
C38_Witness ==
  /\ Len(calls) = 0 /\ last.op = "get" /\ last.threw = "RangeError"
  /\ IsString(LayerValue(layers[1], last.key))

\* C38 (side): get returns a string without references, or a number; it
\* throws only for a reference to an undefined key or for want of stack
C38_ResultIsReplaced ==
  (Len(calls) = 0 /\ last.op = "get")
  => IF last.ret THEN last.val \in {Undefined, S("1"), S("'x'"), S("'1'"), S("'xx'"), S("'x1'")}
     ELSE last.threw \in {"Error", "RangeError"}


\* the data merged holds a value at a path that a schema of layer oid marks
\* read-only
MergesReadOnly(oid, pv) ==
  \E q \in Keys : PVAt(pv, q) # Undefined /\ SchemaMarks(LayerSchemas(World, oid), q)

C39_Step ==
  LET t == Targets("merge", last'.id)
  IN ( /\ steps' = steps + 1
       /\ last'.op = "merge"
       /\ \A i \in 1..Len(t) : t[i] # 0
       /\ \E i \in 1..Len(t) : MergesReadOnly(t[i], last'.val) )
     => last'.threw \in ReadOnlyErrors /\ heap' = heap

\* C39: merge(obj) with obj holding a value at a path whose schema node is
\* marked read-only fails with a read-only error and leaves the store
\* unchanged
C39_MergeKeepsReadOnlyFields == [][C39_Step]_vars

\* C39 (side): set() at such a path throws and leaves the store unchanged
C39_SetIsRejected ==
  [][\A q \in Keys :
       ( /\ steps' = steps + 1
         /\ last'.op = "set" /\ last'.key = q /\ last'.id # NoId /\ map[last'.id] # 0
         /\ SchemaMarks(LayerSchemas(World, map[last'.id]), q) )
       => last'.threw # "none" /\ heap' = heap]_vars


\* a set or delete in the layer of namespace 'test' returns and changes the
\* value that the layer holds at key
NsChange(key) ==
  /\ steps' = steps + 1
  /\ paused = 0
  /\ last'.op \in {"set", "delete"} /\ last'.id = "L1" /\ last'.threw = "none"
  /\ LayerValue(map["L1"], key) # LayerValueAfter(map["L1"], key)

\* C40: a handler registered with Config.watch('test.foo', h) is invoked
\* when a set or delete changes key test.foo in a layer whose namespace is
\* test
C40_NamespacedFilterNotified ==
  [][\A hd \in Handlers :
       (NsChange(<<"test", "foo">>) /\ watcherMap[hd] = <<<<"test", "foo">>>>)
       => InvokedAll(calls', hd) >= 1]_vars

\* C40 (side): a handler registered for all changes is invoked by it
C40_UnfilteredNotified ==
  [][\A hd \in Handlers :
       (NsChange(<<"test", "foo">>) /\ watcherMap[hd] = <<<<>>>>)
       => InvokedAll(calls', hd) >= 1]_vars

====
